---- MODULE Spec2Model ----
(***************************************************************************)
(* Model of the Alluxio python client's worker hash ring, its background  *)
(* refresh and the shutdown of the refresh (alluxio/worker_ring.py), of    *)
(* the routing done by the client facade, and of its page I/O engine and   *)
(* load polling (alluxio/alluxio_file_system.py, alluxiofs/load.py).       *)
(*                                                                         *)
(* 32-bit words are pairs <<hi, lo>> of 16-bit halves, because the model   *)
(* checker's integers are 32-bit signed and MurmurHash3 needs unsigned     *)
(* 32-bit arithmetic modulo 2^32.                                          *)
(***************************************************************************)
EXTENDS Integers, Sequences, FiniteSets, TLC

VARIABLES
    config,                 \* the AlluxioClientConfig given to the provider
    ctor_pc,                \* ConsistentHashProvider.__init__: running, returned, failed
    hash_ring,              \* self.hash_ring
    _worker_info_map,       \* self._worker_info_map
    _is_ring_initialized,   \* self._is_ring_initialized
    _lock,                  \* self._lock: free, or the thread holding it
    _background_thread,     \* none, started, or ended
    caller,                 \* the thread that fetches and updates: ctor, then bg
    pc,                     \* its position in __init__ / update_loop /
                            \* _fetch_workers_and_update_ring / _update_hash_ring
    worker_entities,        \* local of _fetch_workers_and_update_ring
    fetch_start_map,        \* self._worker_info_map when the fetch began
    new_worker_info_map,    \* the map handed to _update_hash_ring
    new_hash_ring,          \* local hash_ring of _update_hash_ring
    g_pc,                   \* the client thread in get_multiple_workers
    g_key,                  \* its key argument
    g_count,                \* its count argument
    worker_identities,      \* result of _get_multiple_worker_identities
    g_attempts,             \* attempts when the probing loop ended
    worker_addresses,       \* the list get_multiple_workers returns
    seen_hash_ring,         \* self.hash_ring as the probing loop read it
    seen_len_map,           \* self._worker_info_map as len() read it
    seen_get_map,           \* self._worker_info_map as .get() read it
    op,                     \* the facade operation in progress, or none
    op_pc,                  \* its position
    op_worker,              \* the (worker_host, worker_http_port) it resolved
    op_resolved,            \* calls of _get_preferred_worker_address so far
    op_sent,                \* the workers its HTTP requests went to, in order
    page_size,              \* self.page_size, in bytes
    ufs_length,             \* length of the file behind the path (mLength)
    w_pages,                \* the worker's pages of the file, by page index
    io_client,              \* the code called: sync (AlluxioFileSystem),
                            \* async (AlluxioAsyncFileSystem) or module
                            \* (alluxiofs.load)
    io_op,                  \* the public method in progress, or none
    io_pc,                  \* its position
    io_path,                \* its path argument
    io_offset,              \* offset argument of read_range
    io_length,              \* length argument of read_range
    length,                 \* the local length of read_range, once it is set
    page_index,             \* page_index of the page generators and of write_page
    io_page_bytes,          \* page_bytes argument of write_page
    io_contents,            \* the page contents yielded so far, in order
    io_requests,            \* the HTTP requests issued by the call, in order
    io_pending,             \* requests issued whose response is outstanding
    io_selected,            \* calls of _get_preferred_worker_address in the call
    io_worker,              \* the worker_host, worker_http_port it resolved
    io_written,             \* pages the worker stored for a write_page, by index
    io_result,              \* what the call returned or raised
    timeout,                \* timeout argument of load ("None" or seconds)
    io_clock,               \* time.time() since stop_time was set, in seconds
    io_polls,               \* job states the progress polls returned, in order
    _shutdown_background_update_ring_event,
                            \* the threading.Event is set
    sd_pc,                  \* the thread in shutdown_background_update_ring
    logged_error            \* update_loop has logged an error

----------------------------------------------------------------------------
(* MurmurHash3 x86_32, seed 0, as computed by mmh3.mmh3_32()               *)

Pow2(n) == 2 ^ n

\* bit i of a XOR b, in place
XorBit(a, b, i) == ((((a \div Pow2(i)) % 2) + ((b \div Pow2(i)) % 2)) % 2) * Pow2(i)

XorNibble(a, b, i) ==
    XorBit(a, b, i) + XorBit(a, b, i + 1) + XorBit(a, b, i + 2) + XorBit(a, b, i + 3)

Xor16(a, b) ==
    XorNibble(a, b, 0) + XorNibble(a, b, 4) + XorNibble(a, b, 8) + XorNibble(a, b, 12)

Xor32(x, y) == <<Xor16(x[1], y[1]), Xor16(x[2], y[2])>>

\* low and high 16 bits of the product of two 16-bit numbers
MulMid(x, y) == ((x \div 256) * (y % 256)) + ((x % 256) * (y \div 256))
MulLow(x, y) == ((x % 256) * (y % 256)) + ((MulMid(x, y) % 256) * 256)
MulLo16(x, y) == MulLow(x, y) % 65536
MulHi16(x, y) ==
    ((x \div 256) * (y \div 256)) + (MulMid(x, y) \div 256) + (MulLow(x, y) \div 65536)

Mul32(x, c) ==
    << (MulHi16(x[2], c[2]) + MulLo16(x[1], c[2]) + MulLo16(x[2], c[1])) % 65536,
       MulLo16(x[2], c[2]) >>

Add32(x, y) ==
    << (x[1] + y[1] + ((x[2] + y[2]) \div 65536)) % 65536, (x[2] + y[2]) % 65536 >>

\* rotate left by r, 0 < r < 16
Rotl32(x, r) ==
    << ((x[1] * Pow2(r)) % 65536) + (x[2] \div Pow2(16 - r)),
       ((x[2] * Pow2(r)) % 65536) + (x[1] \div Pow2(16 - r)) >>

\* logical shift right by r, 0 < r <= 16
Shr32(x, r) ==
    << x[1] \div Pow2(r), (x[2] \div Pow2(r)) + ((x[1] * Pow2(16 - r)) % 65536) >>

\* n.to_bytes(4, "little") for 0 <= n < 2^31
ToBytesLE4(n) ==
    << n % 256, (n \div 256) % 256, (n \div 65536) % 256, n \div 16777216 >>

\* the i-th (0-based) little-endian 4-byte block of a byte sequence
Block(data, i) ==
    << data[4 * i + 3] + 256 * data[4 * i + 4],
       data[4 * i + 1] + 256 * data[4 * i + 2] >>

\* the 1..3 trailing bytes as a zero-padded little-endian word
TailWord(data) ==
    LET n == Len(data)
        t == n % 4
        b(j) == IF j <= t THEN data[n - t + j] ELSE 0
    IN  << b(3), b(1) + 256 * b(2) >>

MixK(k) == Mul32(Rotl32(Mul32(k, <<52382, 11601>>), 15), <<7047, 13715>>)

MixH(h, k) ==
    Add32(Mul32(Rotl32(Xor32(h, MixK(k)), 13), <<0, 5>>), <<58964, 27492>>)

\* the loop over the 4-byte blocks; each intermediate state is bound as a value
RECURSIVE Body(_, _, _)
Body(data, i, h) ==
    IF i = Len(data) \div 4 THEN h
    ELSE CHOOSE r \in {Body(data, i + 1, v) : v \in {MixH(h, Block(data, i))}} : TRUE

Fmix32(h0) ==
    LET h1 == Xor32(h0, Shr32(h0, 16))
        h2 == Mul32(h1, <<34283, 51819>>)
        h3 == Xor32(h2, Shr32(h2, 13))
        h4 == Mul32(h3, <<49842, 44597>>)
    IN  Xor32(h4, Shr32(h4, 16))

mmh3_32(data) ==
    LET h1 == Body(data, 0, <<0, 0>>)
        h2 == IF Len(data) % 4 = 0 THEN h1 ELSE Xor32(h1, MixK(TailWord(data)))
    IN  Fmix32(Xor32(h2, <<0, Len(data)>>))

\* hasher.sintdigest(): the digest as a signed 32-bit integer
sintdigest(h) ==
    IF h[1] >= 32768 THEN (h[1] - 65536) * 65536 + h[2] ELSE h[1] * 65536 + h[2]

----------------------------------------------------------------------------
(* Constants of the program                                                *)

ALLUXIO_WORKER_HTTP_SERVER_PORT_DEFAULT_VALUE == 28080
ALLUXIO_HASH_NODE_PER_WORKER_DEFAULT_VALUE == 5
DEFAULT_WORKER_IDENTIFIER_VERSION == 1
max_attempts == 100
etcd_refresh_workers_interval == 120

----------------------------------------------------------------------------
(* Value types                                                             *)

WorkerIdentity(version, identifier) ==
    [version |-> version, identifier |-> identifier]

\* host and http_server_port; the other fields keep their defaults in every
\* address of the model and are carried through unchanged by the code
WorkerNetAddress(host, http_server_port) ==
    [host |-> host, http_server_port |-> http_server_port]

WorkerEntity(worker_identity, worker_net_address) ==
    [worker_identity |-> worker_identity,
     worker_net_address |-> worker_net_address]

\* uuid.uuid3(NULL_NAMESPACE, worker_host).bytes, i.e. the MD5 digest of the
\* host name with the UUID version and variant bits set, for the hosts used
uuid3(worker_host) ==
    CASE worker_host = "h1" ->
           <<52, 107, 129, 163, 46, 112, 55, 236,
             138, 223, 96, 37, 43, 181, 153, 240>>
      [] worker_host = "h2" ->
           <<73, 11, 40, 52, 230, 87, 55, 193,
             188, 233, 94, 70, 140, 200, 184, 191>>
      [] worker_host = "h3" ->
           <<111, 32, 127, 139, 93, 254, 62, 235,
             172, 99, 70, 121, 48, 223, 81, 137>>

from_host_and_port(worker_host, worker_http_port) ==
    WorkerEntity(
        WorkerIdentity(DEFAULT_WORKER_IDENTIFIER_VERSION, uuid3(worker_host)),
        WorkerNetAddress(worker_host, worker_http_port))

----------------------------------------------------------------------------
(* Python dict: a sequence of key/value entries in insertion order         *)

EmptyDict == <<>>

DictHas(d, key) == \E i \in 1..Len(d) : d[i].k = key

DictGet(d, key) == d[CHOOSE i \in 1..Len(d) : d[i].k = key].v

\* d[key] = value: a present key keeps its position
DictSet(d, key, value) ==
    IF DictHas(d, key)
    THEN [i \in 1..Len(d) |->
            IF d[i].k = key THEN [k |-> key, v |-> value] ELSE d[i]]
    ELSE Append(d, [k |-> key, v |-> value])

DictKeys(d) == [i \in 1..Len(d) |-> d[i].k]

DictKeySet(d) == {d[i].k : i \in 1..Len(d)}

\* the dict as a set of entities (dict equality ignores insertion order)
DictItems(d) == {WorkerEntity(d[i].k, d[i].v) : i \in 1..Len(d)}

----------------------------------------------------------------------------
(* Hashing of ring positions and of lookup keys                            *)

\* key is the UTF-8 encoding of the path
_hash(key, index) == sintdigest(mmh3_32(key \o ToBytesLE4(index)))

_hash_worker_identity(worker, node_index) ==
    sintdigest(mmh3_32(worker.identifier \o ToBytesLE4(worker.version)
                                          \o ToBytesLE4(node_index)))

RECURSIVE GenerateFrom(_, _, _)
GenerateFrom(host_list, worker_http_port, worker_info_map) ==
    IF host_list = <<>> THEN worker_info_map
    ELSE LET worker_entity == from_host_and_port(Head(host_list), worker_http_port)
         IN  GenerateFrom(Tail(host_list), worker_http_port,
                          DictSet(worker_info_map,
                                  worker_entity.worker_identity,
                                  worker_entity.worker_net_address))

\* worker_hosts is the list of host names after split(",") and strip()
_generate_worker_info_map(worker_hosts, worker_http_port) ==
    GenerateFrom(worker_hosts, worker_http_port, EmptyDict)

----------------------------------------------------------------------------
(* The workers, addresses and paths of the model                           *)

\* identities as a registry reports them: version 1 and a 16-byte identifier
RegistryIdentity(b15, b16) ==
    WorkerIdentity(1, <<0, 0, 0, 0, 0, 0, 0, 0, 0, 0, 0, 0, 0, 0, b15, b16>>)

\* IdX and IdY share two virtual-node keys: node 0 of IdX and node 3 of IdY
\* hash to -1738668549, node 3 of IdX and node 0 of IdY to -643250739
IdX == RegistryIdentity(44, 231)
IdY == RegistryIdentity(59, 14)
IdZ == RegistryIdentity(87, 143)

RegistryIdentities == {IdX, IdY, IdZ}

\* an identity registered with the version -1, which from_worker_info
\* accepts (int("-1")) and to_bytes(4, "little") does not
IdNegative == WorkerIdentity(-1, IdZ.identifier)

StaticHosts == {"h1", "h2", "h3"}

StaticIdentities ==
    {from_host_and_port(h, ALLUXIO_WORKER_HTTP_SERVER_PORT_DEFAULT_VALUE).worker_identity :
        h \in StaticHosts}

Identities == RegistryIdentities \cup StaticIdentities

\* UTF-8 bytes of "s3://b/x" and of "s3://b/x77"
PathX == <<115, 51, 58, 47, 47, 98, 47, 120>>
PathX77 == <<115, 51, 58, 47, 47, 98, 47, 120, 55, 55>>

Paths == {PathX, PathX77}

\* the hash values the model needs, computed once
NodeKeys ==
    [w \in Identities |->
        [i \in 0..(ALLUXIO_HASH_NODE_PER_WORKER_DEFAULT_VALUE - 1) |->
            _hash_worker_identity(w, i)]]

LookupKeys == [p \in Paths |-> [a \in 1..max_attempts |-> _hash(p, a)]]

----------------------------------------------------------------------------
(* SortedDict: a function from hash keys to worker identities              *)

NoRing == <<>>

\* the assignment that leaves a key already present with its value
SortedDictSetKeepingFirst(ring, key, value) ==
    [k \in (DOMAIN ring) \cup {key} |->
        IF k \in DOMAIN ring THEN ring[k] ELSE value]

SortedDictSet(ring, key, value) ==
    [k \in (DOMAIN ring) \cup {key} |-> IF k = key THEN value ELSE ring[k]]

\* the bisection that counts the keys less than hash_key
bisect_left(ring, hash_key) == Cardinality({k \in DOMAIN ring : k < hash_key})

bisect_right(ring, hash_key) == Cardinality({k \in DOMAIN ring : k <= hash_key})

\* ring.keys()[index], 0-based, in ascending key order
KeyAt(ring, index) ==
    CHOOSE k \in DOMAIN ring : Cardinality({j \in DOMAIN ring : j < k}) = index

\* the lookup that wraps around to the last key instead of the first
_get_ceiling_value_wrapping_to_last(ring, hash_key) ==
    LET key_index == bisect_right(ring, hash_key)
    IN  IF key_index < Cardinality(DOMAIN ring)
        THEN ring[KeyAt(ring, key_index)]
        ELSE ring[KeyAt(ring, Cardinality(DOMAIN ring) - 1)]

_get_ceiling_value(ring, hash_key) ==
    LET key_index == bisect_right(ring, hash_key)
    IN  IF key_index < Cardinality(DOMAIN ring)
        THEN ring[KeyAt(ring, key_index)]
        ELSE ring[KeyAt(ring, 0)]

RECURSIVE InsertNodes(_, _, _, _)
InsertNodes(ring, worker_identity, i, hash_node_per_worker) ==
    IF i = hash_node_per_worker THEN ring
    ELSE InsertNodes(
             SortedDictSet(ring, NodeKeys[worker_identity][i], worker_identity),
             worker_identity, i + 1, hash_node_per_worker)

RECURSIVE InsertWorkers(_, _, _)
InsertWorkers(ring, keys, hash_node_per_worker) ==
    IF keys = <<>> THEN ring
    ELSE InsertWorkers(
             InsertNodes(ring, Head(keys), 0, hash_node_per_worker),
             Tail(keys), hash_node_per_worker)

\* the hash_ring built by _update_hash_ring from worker_info_map
NewHashRing(worker_info_map) ==
    InsertWorkers(NoRing, DictKeys(worker_info_map),
                  ALLUXIO_HASH_NODE_PER_WORKER_DEFAULT_VALUE)

\* the loop body without the test "worker not in workers"
LoopStepAppendAlways(ring, key, count, st) ==
    IF Len(st.workers) < count /\ st.attempts < max_attempts
    THEN [workers |->
             Append(st.workers,
                    _get_ceiling_value(ring, LookupKeys[key][st.attempts + 1])),
          attempts |-> st.attempts + 1]
    ELSE st

\* the loop body that puts a new worker in front of the list
LoopStepPrepending(ring, key, count, st) ==
    IF Len(st.workers) < count /\ st.attempts < max_attempts
    THEN LET worker == _get_ceiling_value(ring, LookupKeys[key][st.attempts + 1])
         IN  [workers |->
                IF \E i \in 1..Len(st.workers) : st.workers[i] = worker
                THEN st.workers
                ELSE <<worker>> \o st.workers,
              attempts |-> st.attempts + 1]
    ELSE st

\* one iteration of the probing loop; st = [workers, attempts]
LoopStep(ring, key, count, st) ==
    IF Len(st.workers) < count /\ st.attempts < max_attempts
    THEN LET worker == _get_ceiling_value(ring, LookupKeys[key][st.attempts + 1])
         IN  [workers |->
                IF \E i \in 1..Len(st.workers) : st.workers[i] = worker
                THEN st.workers
                ELSE Append(st.workers, worker),
              attempts |-> st.attempts + 1]
    ELSE st

\* n iterations of the loop; every intermediate state is bound as a value
RECURSIVE Iterate(_, _, _, _, _)
Iterate(ring, key, count, st, n) ==
    IF n = 0 THEN st
    ELSE CHOOSE r \in { LoopStep(ring, key, count, v) :
                          v \in {Iterate(ring, key, count, st, n - 1)} } : TRUE

\* the while loop, run in batches of ten iterations to keep the evaluation
\* shallow; every batch result is bound as a value
RECURSIVE ProbeLoop(_, _, _, _)
ProbeLoop(ring, key, count, st) ==
    IF Len(st.workers) < count /\ st.attempts < max_attempts
    THEN CHOOSE r \in { ProbeLoop(ring, key, count, nx) :
                          nx \in {Iterate(ring, key, count, st, 10)} } : TRUE
    ELSE st

_get_multiple_worker_identities(ring, worker_info_map, key, count) ==
    LET cnt == IF count >= Len(worker_info_map)
               THEN Len(worker_info_map) ELSE count
    IN  ProbeLoop(ring, key, cnt, [workers |-> <<>>, attempts |-> 0])

\* the address list of get_multiple_workers for the identities found
RECURSIVE AddressesOf(_, _)
AddressesOf(identities, worker_info_map) ==
    IF identities = <<>> THEN <<>>
    ELSE LET rest == AddressesOf(Tail(identities), worker_info_map)
         IN  IF DictHas(worker_info_map, Head(identities))
             THEN <<DictGet(worker_info_map, Head(identities))>> \o rest
             ELSE rest

----------------------------------------------------------------------------
(* Configurations, registry contents and calls of the model                *)

MaxCount == 3

\* worker_hosts after split(",") and strip(); <<>> stands for a config
\* without worker_address_config
StaticHostLists == {<<"h1", "h2", "h3">>, <<"h3", "h1">>}

\* etcd_hosts after split(","); <<>> stands for a config without etcd_config
EtcdHostList == <<"e1", "e2">>

\* AlluxioClientConfig asserts that exactly one of the two is given;
\* etcd_refresh_workers_interval is the default or 0 (no background refresh)
Configs ==
    { [worker_hosts |-> hs, etcd_hosts |-> <<>>,
       etcd_refresh_workers_interval |-> etcd_refresh_workers_interval] :
         hs \in StaticHostLists }
    \cup
    { [worker_hosts |-> <<>>, etcd_hosts |-> EtcdHostList,
       etcd_refresh_workers_interval |-> i] :
         i \in {etcd_refresh_workers_interval, 0} }

EntityOf(identity, host) ==
    WorkerEntity(identity,
        WorkerNetAddress(host, ALLUXIO_WORKER_HTTP_SERVER_PORT_DEFAULT_VALUE))

\* the worker sets a registry endpoint may hold under the prefix
RegistryContents ==
    { {},
      {EntityOf(IdX, "wx"), EntityOf(IdY, "wy"), EntityOf(IdZ, "wz")},
      {EntityOf(IdX, "wx"), EntityOf(IdY, "wy")},
      {EntityOf(IdY, "wy"), EntityOf(IdZ, "wz")},
      {EntityOf(IdX, "wx2"), EntityOf(IdY, "wy")},
      {EntityOf(IdX, "wx"), EntityOf(IdNegative, "wn")} }

\* what one endpoint answers to get_prefix: no connection, values that
\* from_worker_info cannot decode, or the decoded values
EndpointAnswers ==
    { [status |-> "unreachable", workers |-> {}],
      [status |-> "undecodable", workers |-> {}] }
    \cup { [status |-> "ok", workers |-> ws] : ws \in RegistryContents }

\* EtcdClient.get_worker_entities on an endpoint with this answer
get_worker_entities(answer) ==
    IF answer.status # "ok" \/ answer.workers = {}
    THEN [raised |-> TRUE, value |-> {}]
    ELSE [raised |-> FALSE, value |-> answer.workers]

\* the sequences that enumerate the set S once each: the orders in which a
\* shuffle can leave a list and in which a Python set can be iterated
Orders(S) ==
    { s \in [1..Cardinality(S) -> S] :
        \A i, j \in 1..Cardinality(S) : i # j => s[i] # s[j] }

SeqToSet(s) == {s[i] : i \in 1..Len(s)}

\* the for loop over the shuffled etcd_hosts_list: the first endpoint whose
\* get_worker_entities does not raise gives worker_entities
RECURSIVE FirstWorkerEntities(_, _)
FirstWorkerEntities(etcd_hosts_list, answers) ==
    IF etcd_hosts_list = <<>> THEN {}
    ELSE LET got == get_worker_entities(answers[Head(etcd_hosts_list)])
         IN  IF got.raised
             THEN FirstWorkerEntities(Tail(etcd_hosts_list), answers)
             ELSE got.value

\* the for loop over worker_entities; acc = [worker_info_map, diff]
RECURSIVE CollectWorkerInfo(_, _, _)
CollectWorkerInfo(entities, current_map, acc) ==
    IF entities = <<>> THEN acc
    ELSE LET worker_entity == Head(entities)
         IN  CollectWorkerInfo(Tail(entities), current_map,
               [worker_info_map |->
                    DictSet(acc.worker_info_map,
                            worker_entity.worker_identity,
                            worker_entity.worker_net_address),
                diff |->
                    \/ acc.diff
                    \/ ~DictHas(current_map, worker_entity.worker_identity)
                    \/ DictGet(current_map, worker_entity.worker_identity)
                          # worker_entity.worker_net_address])

\* the detection without the comparison of the two lengths
DetectDiffIgnoringLength(entities, current_map) ==
    CollectWorkerInfo(entities, current_map,
                      [worker_info_map |-> EmptyDict, diff |-> FALSE])

\* the detection that reports a difference for every fetch
DetectDiffAlways(entities, current_map) ==
    [worker_info_map |->
         CollectWorkerInfo(entities, current_map,
             [worker_info_map |-> EmptyDict, diff |-> FALSE]).worker_info_map,
     diff |-> TRUE]

\* worker_info_map and diff_in_worker_info_detected for worker_entities
\* iterated in the order of the sequence entities
DetectDiff(entities, current_map) ==
    LET acc == CollectWorkerInfo(entities, current_map,
                                 [worker_info_map |-> EmptyDict, diff |-> FALSE])
    IN  [worker_info_map |-> acc.worker_info_map,
         diff |-> acc.diff \/ Len(acc.worker_info_map) # Len(current_map)]

----------------------------------------------------------------------------
(* Paths, pages and the worker's page store                                *)

MaxPageSize == 2

MaxFileLength == 4

\* Python values that are an int or None (offset, length, timeout)
IntValue(v) == [type |-> "int", value |-> v]
NoneValue == [type |-> "NoneType", value |-> 0]

\* a path argument: a str (its UTF-8 bytes) or some other object
StrPath(text) == [type |-> "str", bytes |-> text]
NotAStrPath == [type |-> "int", bytes |-> <<>>]
NoPath == [type |-> "NoneType", bytes |-> <<>>]

\* UTF-8 bytes of "b/x", "s3:/b", "://b" and "s-3://b"
PathNoScheme == <<98, 47, 120>>
PathOneSlash == <<115, 51, 58, 47, 98>>
PathEmptyScheme == <<58, 47, 47, 98>>
PathDashScheme == <<115, 45, 51, 58, 47, 47, 98>>

PathArguments ==
    {StrPath(PathX), StrPath(PathNoScheme), StrPath(PathOneSlash),
     StrPath(PathEmptyScheme), StrPath(PathDashScheme), NotAStrPath}

\* [a-zA-Z0-9]
IsAlnum(ch) == ch \in (48..57) \cup (65..90) \cup (97..122)

\* re.search(r"^[a-zA-Z0-9]+://", path): one or more alphanumerics from the
\* start, followed by "://"
MatchesScheme(text) ==
    \E m \in 1..Len(text) :
        /\ \A j \in 1..m : IsAlnum(text[j])
        /\ m + 3 <= Len(text)
        /\ text[m + 1] = 58 /\ text[m + 2] = 47 /\ text[m + 3] = 47

\* _validate_path: passes, or raises TypeError or ValueError
_validate_path(path) ==
    IF path.type # "str" THEN "TypeError"
    ELSE IF ~MatchesScheme(path.bytes) THEN "ValueError"
    ELSE "ok"

\* bytes[lo:hi] for 0 <= lo
PySlice(bytes, lo, hi) ==
    LET top == IF hi < Len(bytes) THEN hi ELSE Len(bytes)
    IN  IF lo >= top THEN <<>> ELSE SubSeq(bytes, lo + 1, top)

\* the file behind the path: byte k (counted from 1) has the value k
UfsFile(file_length) == [k \in 1..file_length |-> k]

\* page indices the worker's store of the model covers
MaxPageIndex == MaxFileLength + 1

\* the page store of a worker that holds the whole file in pages of p bytes
PagesOfFile(file_length, p) ==
    [idx \in 0..MaxPageIndex |->
        PySlice(UfsFile(file_length), idx * p, (idx + 1) * p)]

\* no page has been stored for a write_page yet
NothingWritten == [idx \in 0..MaxPageIndex |-> <<>>]

\* the page at an index; no bytes where the worker holds no page
PageAt(pages, idx) == IF idx \in DOMAIN pages THEN pages[idx] ELSE <<>>

\* the body of the worker's answer to GET .../page/<idx>
ServeFullPage(pages, idx) == PageAt(pages, idx)

\* the body of the worker's answer to GET .../page/<idx>?offset=&length=
ServePageRange(pages, idx, page_offset, page_length) ==
    PySlice(PageAt(pages, idx), page_offset, page_offset + page_length)

\* b"".join(contents)
RECURSIVE JoinBytes(_)
JoinBytes(contents) ==
    IF contents = <<>> THEN <<>>
    ELSE Head(contents) \o JoinBytes(Tail(contents))

NoResult == [kind |-> "none", bytes |-> <<>>, flag |-> FALSE]
ReturnedBytes(bytes) == [kind |-> "returned", bytes |-> bytes, flag |-> FALSE]
ReturnedFlag(flag) == [kind |-> "returned", bytes |-> <<>>, flag |-> flag]
Raised(error) == [kind |-> error, bytes |-> <<>>, flag |-> FALSE]

----------------------------------------------------------------------------
(* ConsistentHashProvider: construction, refresh and ring replacement      *)

provider_vars ==
    <<config, ctor_pc, hash_ring, _worker_info_map, _is_ring_initialized,
      _lock, _background_thread, caller, pc, worker_entities,
      fetch_start_map, new_worker_info_map, new_hash_ring>>

client_vars ==
    <<g_pc, g_key, g_count, worker_identities, g_attempts, worker_addresses,
      seen_hash_ring, seen_len_map, seen_get_map>>

facade_vars == <<op, op_pc, op_worker, op_resolved, op_sent>>

io_vars ==
    <<page_size, ufs_length, w_pages, io_client, io_op, io_pc, io_path,
      io_offset, io_length, length, page_index, io_page_bytes, io_contents,
      io_requests, io_pending, io_selected, io_worker, io_written,
      io_result, timeout, io_clock, io_polls>>

shutdown_vars ==
    <<_shutdown_background_update_ring_event, sd_pc, logged_error>>

vars == <<provider_vars, client_vars, facade_vars, io_vars, shutdown_vars>>

NoWorker == WorkerNetAddress("", 0)

\* no call of the file system in progress
IoIdle ==
    /\ io_client = "sync"
    /\ io_op = "none"
    /\ io_pc = "idle"
    /\ io_path = NoPath
    /\ io_offset = 0
    /\ io_length = NoneValue
    /\ length = 0
    /\ page_index = 0
    /\ io_page_bytes = <<>>
    /\ io_contents = <<>>
    /\ io_requests = <<>>
    /\ io_pending = 0
    /\ io_selected = 0
    /\ io_worker = NoWorker
    /\ io_result = NoResult
    /\ timeout = NoneValue
    /\ io_clock = 0
    /\ io_polls = <<>>

\* ConsistentHashProvider.__init__ begins
InitProvider ==
    /\ ctor_pc = "running"
    /\ hash_ring = NoRing
    /\ _worker_info_map = EmptyDict
    /\ _is_ring_initialized = FALSE
    /\ _lock = "free"
    /\ _background_thread = "none"
    /\ caller = "ctor"
    /\ pc = "init"
    /\ worker_entities = {}
    /\ fetch_start_map = EmptyDict
    /\ new_worker_info_map = EmptyDict
    /\ new_hash_ring = NoRing
    /\ g_pc = "idle"
    /\ g_key = <<>>
    /\ g_count = 0
    /\ worker_identities = <<>>
    /\ g_attempts = 0
    /\ worker_addresses = <<>>
    /\ seen_hash_ring = NoRing
    /\ seen_len_map = EmptyDict
    /\ seen_get_map = EmptyDict
    /\ op = "none"
    /\ op_pc = "idle"
    /\ op_worker = NoWorker
    /\ op_resolved = 0
    /\ op_sent = <<>>
    /\ _shutdown_background_update_ring_event = FALSE
    /\ sd_pc = "idle"
    /\ logged_error = FALSE

Init ==
    /\ config \in Configs
    /\ InitProvider
    /\ page_size = 1
    /\ ufs_length = 0
    /\ w_pages = PagesOfFile(0, 1)
    /\ io_written = NothingWritten
    /\ IoIdle

\* __init__ with worker_address_config: _update_hash_ring is called with the
\* generated map
CtorStatic ==
    /\ ctor_pc = "running" /\ pc = "init"
    /\ config.worker_hosts # <<>>
    /\ new_worker_info_map' =
           _generate_worker_info_map(config.worker_hosts,
               ALLUXIO_WORKER_HTTP_SERVER_PORT_DEFAULT_VALUE)
    /\ pc' = "update"
    /\ UNCHANGED <<config, ctor_pc, hash_ring, _worker_info_map,
                   _is_ring_initialized, _lock, _background_thread, caller,
                   worker_entities, fetch_start_map, new_hash_ring>>
    /\ UNCHANGED <<client_vars, facade_vars>>
    /\ UNCHANGED io_vars
    /\ UNCHANGED shutdown_vars

\* __init__ with etcd_config: the first _fetch_workers_and_update_ring
CtorEtcd ==
    /\ ctor_pc = "running" /\ pc = "init"
    /\ config.etcd_hosts # <<>>
    /\ pc' = "fetch"
    /\ UNCHANGED <<config, ctor_pc, hash_ring, _worker_info_map,
                   _is_ring_initialized, _lock, _background_thread, caller,
                   worker_entities, fetch_start_map, new_worker_info_map,
                   new_hash_ring>>
    /\ UNCHANGED <<client_vars, facade_vars>>
    /\ UNCHANGED io_vars
    /\ UNCHANGED shutdown_vars

\* _fetch_workers_and_update_ring up to the end of the loop over the
\* shuffled endpoints
FetchWorkers ==
    /\ pc = "fetch"
    /\ \E etcd_hosts_list \in Orders(SeqToSet(config.etcd_hosts)),
          answers \in [SeqToSet(config.etcd_hosts) -> EndpointAnswers] :
            worker_entities' = FirstWorkerEntities(etcd_hosts_list, answers)
    /\ fetch_start_map' = _worker_info_map
    /\ pc' = "check"
    /\ UNCHANGED <<config, ctor_pc, hash_ring, _worker_info_map,
                   _is_ring_initialized, _lock, _background_thread, caller,
                   new_worker_info_map, new_hash_ring>>
    /\ UNCHANGED <<client_vars, facade_vars>>
    /\ UNCHANGED io_vars
    /\ UNCHANGED shutdown_vars

\* the check that raises for every empty worker_entities
FetchCheckRaising ==
    /\ pc = "check"
    /\ IF worker_entities = {}
       THEN /\ pc' = "raised"
            /\ UNCHANGED new_worker_info_map
       ELSE \E entities \in Orders(worker_entities) :
              LET found == DetectDiff(entities, _worker_info_map)
              IN  /\ new_worker_info_map' = found.worker_info_map
                  /\ pc' = IF found.diff THEN "update" ELSE "returned"
    /\ UNCHANGED <<config, ctor_pc, hash_ring, _worker_info_map,
                   _is_ring_initialized, _lock, _background_thread, caller,
                   worker_entities, fetch_start_map, new_hash_ring>>
    /\ UNCHANGED <<client_vars, facade_vars>>
    /\ UNCHANGED io_vars
    /\ UNCHANGED shutdown_vars

\* the check that returns for every empty worker_entities
FetchCheckQuiet ==
    /\ pc = "check"
    /\ IF worker_entities = {}
       THEN /\ pc' = "returned"
            /\ UNCHANGED new_worker_info_map
       ELSE \E entities \in Orders(worker_entities) :
              LET found == DetectDiff(entities, _worker_info_map)
              IN  /\ new_worker_info_map' = found.worker_info_map
                  /\ pc' = IF found.diff THEN "update" ELSE "returned"
    /\ UNCHANGED <<config, ctor_pc, hash_ring, _worker_info_map,
                   _is_ring_initialized, _lock, _background_thread, caller,
                   worker_entities, fetch_start_map, new_hash_ring>>
    /\ UNCHANGED <<client_vars, facade_vars>>
    /\ UNCHANGED io_vars
    /\ UNCHANGED shutdown_vars

\* the check that hands an empty worker_entities of a later fetch on to
\* _update_hash_ring
FetchCheckPublishingEmpty ==
    /\ pc = "check"
    /\ IF worker_entities = {}
       THEN /\ pc' = IF _is_ring_initialized THEN "update" ELSE "raised"
            /\ new_worker_info_map' = EmptyDict
       ELSE \E entities \in Orders(worker_entities) :
              LET found == DetectDiff(entities, _worker_info_map)
              IN  /\ new_worker_info_map' = found.worker_info_map
                  /\ pc' = IF found.diff THEN "update" ELSE "returned"
    /\ UNCHANGED <<config, ctor_pc, hash_ring, _worker_info_map,
                   _is_ring_initialized, _lock, _background_thread, caller,
                   worker_entities, fetch_start_map, new_hash_ring>>
    /\ UNCHANGED <<client_vars, facade_vars>>
    /\ UNCHANGED io_vars
    /\ UNCHANGED shutdown_vars

\* the rest of _fetch_workers_and_update_ring, up to the call of
\* _update_hash_ring
FetchCheck ==
    /\ pc = "check"
    /\ IF worker_entities = {}
       THEN /\ pc' = IF _is_ring_initialized THEN "returned" ELSE "raised"
            /\ UNCHANGED new_worker_info_map
       ELSE \E entities \in Orders(worker_entities) :
              LET found == DetectDiff(entities, _worker_info_map)
              IN  /\ new_worker_info_map' = found.worker_info_map
                  /\ pc' = IF found.diff THEN "update" ELSE "returned"
    /\ UNCHANGED <<config, ctor_pc, hash_ring, _worker_info_map,
                   _is_ring_initialized, _lock, _background_thread, caller,
                   worker_entities, fetch_start_map, new_hash_ring>>
    /\ UNCHANGED <<client_vars, facade_vars>>
    /\ UNCHANGED io_vars
    /\ UNCHANGED shutdown_vars

\* _hash_worker_identity raises OverflowError for one of the identities:
\* worker.version.to_bytes(4, "little") of a negative version
HashRaises(worker_info_map) ==
    \E i \in 1..Len(worker_info_map) : worker_info_map[i].k.version < 0

\* _update_hash_ring: take the lock and build the local hash_ring. An
\* exception of the build leaves the with block, which releases the lock,
\* and the function
UpdateAcquire ==
    /\ pc = "update"
    /\ _lock = "free"
    /\ IF HashRaises(new_worker_info_map)
       THEN /\ pc' = "raised"
            /\ UNCHANGED <<_lock, new_hash_ring>>
       ELSE /\ _lock' = caller
            /\ new_hash_ring' = NewHashRing(new_worker_info_map)
            /\ pc' = "pub_ring"
    /\ UNCHANGED <<config, ctor_pc, hash_ring, _worker_info_map,
                   _is_ring_initialized, _background_thread, caller,
                   worker_entities, fetch_start_map, new_worker_info_map>>
    /\ UNCHANGED <<client_vars, facade_vars>>
    /\ UNCHANGED io_vars
    /\ UNCHANGED shutdown_vars

\* self.hash_ring = hash_ring
PubRing ==
    /\ pc = "pub_ring"
    /\ hash_ring' = new_hash_ring
    /\ pc' = "pub_map"
    /\ UNCHANGED <<config, ctor_pc, _worker_info_map, _is_ring_initialized,
                   _lock, _background_thread, caller, worker_entities,
                   fetch_start_map, new_worker_info_map, new_hash_ring>>
    /\ UNCHANGED <<client_vars, facade_vars>>
    /\ UNCHANGED io_vars
    /\ UNCHANGED shutdown_vars

\* the assignment that keeps the address already recorded for an identity
PubMapKeepingKnownAddresses ==
    /\ pc = "pub_map"
    /\ _worker_info_map' =
           [i \in 1..Len(new_worker_info_map) |->
               IF DictHas(_worker_info_map, new_worker_info_map[i].k)
               THEN [k |-> new_worker_info_map[i].k,
                     v |-> DictGet(_worker_info_map, new_worker_info_map[i].k)]
               ELSE new_worker_info_map[i]]
    /\ pc' = "pub_flag"
    /\ UNCHANGED <<config, ctor_pc, hash_ring, _is_ring_initialized, _lock,
                   _background_thread, caller, worker_entities,
                   fetch_start_map, new_worker_info_map, new_hash_ring>>
    /\ UNCHANGED <<client_vars, facade_vars>>
    /\ UNCHANGED io_vars
    /\ UNCHANGED shutdown_vars

\* self._worker_info_map = worker_info_map
PubMap ==
    /\ pc = "pub_map"
    /\ _worker_info_map' = new_worker_info_map
    /\ pc' = "pub_flag"
    /\ UNCHANGED <<config, ctor_pc, hash_ring, _is_ring_initialized, _lock,
                   _background_thread, caller, worker_entities,
                   fetch_start_map, new_worker_info_map, new_hash_ring>>
    /\ UNCHANGED <<client_vars, facade_vars>>
    /\ UNCHANGED io_vars
    /\ UNCHANGED shutdown_vars

\* self._is_ring_initialized = True, the end of the with block, and the
\* return of _update_hash_ring and of its caller
PubFlag ==
    /\ pc = "pub_flag"
    /\ _is_ring_initialized' = TRUE
    /\ _lock' = IF _lock = caller THEN "free" ELSE _lock
    /\ pc' = "returned"
    /\ UNCHANGED <<config, ctor_pc, hash_ring, _worker_info_map,
                   _background_thread, caller, worker_entities,
                   fetch_start_map, new_worker_info_map, new_hash_ring>>
    /\ UNCHANGED <<client_vars, facade_vars>>
    /\ UNCHANGED io_vars
    /\ UNCHANGED shutdown_vars

\* the exception of the first fetch leaves __init__
CtorRaise ==
    /\ caller = "ctor" /\ pc = "raised"
    /\ ctor_pc' = "failed"
    /\ pc' = "done"
    /\ UNCHANGED <<config, hash_ring, _worker_info_map, _is_ring_initialized,
                   _lock, _background_thread, caller, worker_entities,
                   fetch_start_map, new_worker_info_map, new_hash_ring>>
    /\ UNCHANGED <<client_vars, facade_vars>>
    /\ UNCHANGED io_vars
    /\ UNCHANGED shutdown_vars

\* the rest of __init__: with etcd_config and a positive interval the
\* background thread is started
CtorReturn ==
    /\ caller = "ctor" /\ pc = "returned"
    /\ ctor_pc' = "returned"
    /\ IF config.etcd_hosts # <<>> /\ config.etcd_refresh_workers_interval > 0
       THEN /\ _background_thread' = "started"
            /\ caller' = "bg"
            /\ pc' = "loop"
       ELSE /\ pc' = "done"
            /\ UNCHANGED <<_background_thread, caller>>
    /\ worker_entities' = {}
    /\ fetch_start_map' = EmptyDict
    /\ new_worker_info_map' = EmptyDict
    /\ new_hash_ring' = NoRing
    /\ UNCHANGED <<config, hash_ring, _worker_info_map, _is_ring_initialized,
                   _lock>>
    /\ UNCHANGED <<client_vars, facade_vars>>
    /\ UNCHANGED io_vars
    /\ UNCHANGED shutdown_vars

\* update_loop: the loop test finds the event not set; the call of the
\* refresh
BgLoop ==
    /\ caller = "bg" /\ pc = "loop"
    /\ ~_shutdown_background_update_ring_event
    /\ pc' = "fetch"
    /\ UNCHANGED <<config, ctor_pc, hash_ring, _worker_info_map,
                   _is_ring_initialized, _lock, _background_thread, caller,
                   worker_entities, fetch_start_map, new_worker_info_map,
                   new_hash_ring>>
    /\ UNCHANGED <<client_vars, facade_vars>>
    /\ UNCHANGED io_vars
    /\ UNCHANGED shutdown_vars

\* the update_loop without the try block: an exception of the refresh ends
\* the thread
BgSleepUncaught ==
    /\ caller = "bg" /\ pc \in {"returned", "raised"}
    /\ IF pc = "raised"
       THEN /\ pc' = "done"
            /\ _background_thread' = "ended"
       ELSE /\ pc' = "loop"
            /\ UNCHANGED _background_thread
    /\ worker_entities' = {}
    /\ fetch_start_map' = EmptyDict
    /\ new_worker_info_map' = EmptyDict
    /\ new_hash_ring' = NoRing
    /\ UNCHANGED <<config, ctor_pc, hash_ring, _worker_info_map,
                   _is_ring_initialized, _lock, caller>>
    /\ UNCHANGED <<client_vars, facade_vars>>
    /\ UNCHANGED io_vars
    /\ UNCHANGED shutdown_vars

\* update_loop: the refresh returned, or its exception was caught and
\* logged; time.sleep(interval)
BgSleep ==
    /\ caller = "bg" /\ pc \in {"returned", "raised"}
    /\ pc' = "loop"
    /\ logged_error' = (logged_error \/ pc = "raised")
    /\ worker_entities' = {}
    /\ fetch_start_map' = EmptyDict
    /\ new_worker_info_map' = EmptyDict
    /\ new_hash_ring' = NoRing
    /\ UNCHANGED <<config, ctor_pc, hash_ring, _worker_info_map,
                   _is_ring_initialized, _lock, _background_thread, caller>>
    /\ UNCHANGED <<client_vars, facade_vars>>
    /\ UNCHANGED io_vars
    /\ UNCHANGED <<_shutdown_background_update_ring_event, sd_pc>>

\* update_loop: the loop test finds the event set; the thread ends
BgExit ==
    /\ caller = "bg" /\ pc = "loop"
    /\ _shutdown_background_update_ring_event
    /\ pc' = "done"
    /\ _background_thread' = "ended"
    /\ UNCHANGED <<config, ctor_pc, hash_ring, _worker_info_map,
                   _is_ring_initialized, _lock, caller, worker_entities,
                   fetch_start_map, new_worker_info_map, new_hash_ring>>
    /\ UNCHANGED <<client_vars, facade_vars>>
    /\ UNCHANGED io_vars
    /\ UNCHANGED shutdown_vars

\* shutdown_background_update_ring, called by the owner of the provider.
\* Without etcd_config the test of the if raises AttributeError; with a
\* refresh interval that is not positive nothing is done; otherwise the
\* event is set and the thread is joined
ShutdownCall ==
    /\ ctor_pc = "returned"
    /\ sd_pc = "idle"
    /\ IF config.etcd_hosts = <<>>
       THEN /\ sd_pc' = "raised"
            /\ UNCHANGED _shutdown_background_update_ring_event
       ELSE IF config.etcd_refresh_workers_interval > 0
            THEN /\ _shutdown_background_update_ring_event' = TRUE
                 /\ sd_pc' = IF _background_thread # "none"
                             THEN "join" ELSE "returned"
            ELSE /\ sd_pc' = "returned"
                 /\ UNCHANGED _shutdown_background_update_ring_event
    /\ UNCHANGED logged_error
    /\ UNCHANGED <<provider_vars, client_vars, facade_vars>>
    /\ UNCHANGED io_vars

\* the join that returns while the thread is running
ShutdownJoinUnjoined ==
    /\ sd_pc = "join"
    /\ sd_pc' = "returned"
    /\ UNCHANGED <<_shutdown_background_update_ring_event, logged_error>>
    /\ UNCHANGED <<provider_vars, client_vars, facade_vars>>
    /\ UNCHANGED io_vars

\* self._background_thread.join() returns once the thread has ended
ShutdownJoin ==
    /\ sd_pc = "join"
    /\ _background_thread = "ended"
    /\ sd_pc' = "returned"
    /\ UNCHANGED <<_shutdown_background_update_ring_event, logged_error>>
    /\ UNCHANGED <<provider_vars, client_vars, facade_vars>>
    /\ UNCHANGED io_vars

----------------------------------------------------------------------------
(* get_multiple_workers, called by a client thread of the provider         *)

\* a call with some key and count; the provider exists once __init__ returned
GmwCall ==
    /\ ctor_pc = "returned"
    /\ g_pc = "idle" /\ op = "none"
    /\ \E key \in Paths, count \in 0..MaxCount :
          /\ g_key' = key
          /\ g_count' = count
    /\ g_pc' = "acquire"
    /\ UNCHANGED <<worker_identities, g_attempts, worker_addresses,
                   seen_hash_ring, seen_len_map, seen_get_map>>
    /\ UNCHANGED <<provider_vars, facade_vars>>
    /\ UNCHANGED io_vars
    /\ UNCHANGED shutdown_vars

\* get_multiple_workers entered without taking self._lock
GmwAcquireUnlocked ==
    /\ g_pc = "acquire"
    /\ g_pc' = "identities"
    /\ UNCHANGED provider_vars
    /\ UNCHANGED <<g_key, g_count, worker_identities, g_attempts,
                   worker_addresses, seen_hash_ring, seen_len_map,
                   seen_get_map>>
    /\ UNCHANGED facade_vars
    /\ UNCHANGED io_vars
    /\ UNCHANGED shutdown_vars

\* with self._lock:
GmwAcquire ==
    /\ g_pc = "acquire"
    /\ _lock = "free"
    /\ _lock' = "client"
    /\ g_pc' = "identities"
    /\ UNCHANGED <<config, ctor_pc, hash_ring, _worker_info_map,
                   _is_ring_initialized, _background_thread, caller, pc,
                   worker_entities, fetch_start_map, new_worker_info_map,
                   new_hash_ring>>
    /\ UNCHANGED <<g_key, g_count, worker_identities, g_attempts,
                   worker_addresses, seen_hash_ring, seen_len_map,
                   seen_get_map>>
    /\ UNCHANGED facade_vars
    /\ UNCHANGED io_vars
    /\ UNCHANGED shutdown_vars

\* worker_identities = self._get_multiple_worker_identities(key, count)
GmwIdentities ==
    /\ g_pc = "identities"
    /\ LET found == _get_multiple_worker_identities(
                        hash_ring, _worker_info_map, g_key, g_count)
       IN  /\ worker_identities' = found.workers
           /\ g_attempts' = found.attempts
    /\ seen_hash_ring' = hash_ring
    /\ seen_len_map' = _worker_info_map
    /\ g_pc' = "addresses"
    /\ UNCHANGED <<g_key, g_count, worker_addresses, seen_get_map>>
    /\ UNCHANGED <<provider_vars, facade_vars>>
    /\ UNCHANGED io_vars
    /\ UNCHANGED shutdown_vars

\* the translation to addresses, the end of the with block and the return
GmwAddresses ==
    /\ g_pc = "addresses"
    /\ worker_addresses' = AddressesOf(worker_identities, _worker_info_map)
    /\ seen_get_map' = _worker_info_map
    /\ _lock' = IF _lock = "client" THEN "free" ELSE _lock
    /\ g_pc' = "done"
    /\ UNCHANGED <<config, ctor_pc, hash_ring, _worker_info_map,
                   _is_ring_initialized, _background_thread, caller, pc,
                   worker_entities, fetch_start_map, new_worker_info_map,
                   new_hash_ring>>
    /\ UNCHANGED <<g_key, g_count, worker_identities, g_attempts,
                   seen_hash_ring, seen_len_map>>
    /\ UNCHANGED facade_vars
    /\ UNCHANGED io_vars
    /\ UNCHANGED shutdown_vars

\* the caller has the list; the thread is free for its next call
GmwReturn ==
    /\ g_pc = "done" /\ op = "none"
    /\ g_pc' = "idle"
    /\ g_key' = <<>>
    /\ g_count' = 0
    /\ worker_identities' = <<>>
    /\ g_attempts' = 0
    /\ worker_addresses' = <<>>
    /\ seen_hash_ring' = NoRing
    /\ seen_len_map' = EmptyDict
    /\ seen_get_map' = EmptyDict
    /\ UNCHANGED <<provider_vars, facade_vars>>
    /\ UNCHANGED io_vars
    /\ UNCHANGED shutdown_vars

----------------------------------------------------------------------------
(* The provider with a client calling get_multiple_workers                 *)

Construct == CtorStatic \/ CtorEtcd \/ CtorRaise \/ CtorReturn

Refresh ==
    \/ BgLoop \/ FetchWorkers \/ FetchCheck \/ UpdateAcquire
    \/ PubRing \/ PubMap \/ PubFlag \/ BgSleep

Select == GmwAcquire \/ GmwIdentities \/ GmwAddresses

Next == Construct \/ Refresh \/ GmwCall \/ Select \/ GmwReturn

Spec == Init /\ [][Next]_vars

----------------------------------------------------------------------------
(* AlluxioFileSystem: the routing of the public operations                 *)

MaxRequests == 2

\* read, read_range with a length, read_range with length None or -1 (which
\* asks get_file_status for the length first), and load
Operations == {"read", "read_range", "read_range_to_end", "load"}

\* a public operation is called with a path that passes _validate_path
OpStart ==
    /\ ctor_pc = "returned"
    /\ op = "none" /\ g_pc = "idle"
    /\ \E o \in Operations, file_path \in Paths :
          /\ op' = o
          /\ g_key' = file_path
          /\ op_pc' = IF o = "read_range_to_end"
                      THEN "status_resolve" ELSE "resolve"
    /\ UNCHANGED <<op_worker, op_resolved, op_sent>>
    /\ UNCHANGED <<g_pc, g_count, worker_identities, g_attempts,
                   worker_addresses, seen_hash_ring, seen_len_map,
                   seen_get_map>>
    /\ UNCHANGED provider_vars
    /\ UNCHANGED io_vars
    /\ UNCHANGED shutdown_vars

\* _get_preferred_worker_address: get_multiple_workers(full_ufs_path, 1)
OpResolve ==
    /\ op_pc \in {"resolve", "status_resolve"}
    /\ g_pc = "idle"
    /\ g_count' = 1
    /\ g_pc' = "acquire"
    /\ op_pc' = IF op_pc = "resolve" THEN "resolving" ELSE "status_resolving"
    /\ UNCHANGED <<op, op_worker, op_resolved, op_sent>>
    /\ UNCHANGED <<g_key, worker_identities, g_attempts, worker_addresses,
                   seen_hash_ring, seen_len_map, seen_get_map>>
    /\ UNCHANGED provider_vars
    /\ UNCHANGED io_vars
    /\ UNCHANGED shutdown_vars

\* _get_preferred_worker_address: ValueError unless exactly one worker came
\* back, else its host and http_server_port
OpResolved ==
    /\ op_pc \in {"resolving", "status_resolving"}
    /\ g_pc = "done"
    /\ IF Len(worker_addresses) # 1
       THEN /\ op_pc' = "raised"
            /\ UNCHANGED <<op_worker, op_resolved>>
       ELSE /\ op_worker' = worker_addresses[1]
            /\ op_resolved' = op_resolved + 1
            /\ op_pc' = IF op_pc = "resolving"
                        THEN "request" ELSE "status_request"
    /\ g_pc' = "idle"
    /\ g_count' = 0
    /\ worker_identities' = <<>>
    /\ g_attempts' = 0
    /\ worker_addresses' = <<>>
    /\ seen_hash_ring' = NoRing
    /\ seen_len_map' = EmptyDict
    /\ seen_get_map' = EmptyDict
    /\ UNCHANGED <<op, op_sent, g_key>>
    /\ UNCHANGED provider_vars
    /\ UNCHANGED io_vars
    /\ UNCHANGED shutdown_vars

\* get_file_status inside read_range: the request goes to the worker
\* resolved for it; read_range then returns b"" for a remaining length of 0,
\* fails when the request failed, or goes on to resolve the worker itself
OpStatus ==
    /\ op_pc = "status_request"
    /\ op_sent' = Append(op_sent, op_worker)
    /\ \E outcome \in {"resolve", "finished", "raised"} : op_pc' = outcome
    /\ UNCHANGED <<op, op_worker, op_resolved>>
    /\ UNCHANGED <<provider_vars, client_vars>>
    /\ UNCHANGED io_vars
    /\ UNCHANGED shutdown_vars

\* a request of the operation itself (a page of read or read_range, the
\* submit or a progress poll of load) to the worker resolved for it; the
\* answer decides whether another request follows
OpRequest ==
    /\ op_pc = "request"
    /\ op_sent' = Append(op_sent, op_worker)
    /\ \E more \in BOOLEAN :
          op_pc' = IF more /\ Len(op_sent) + 1 < MaxRequests
                   THEN "request" ELSE "finished"
    /\ UNCHANGED <<op, op_worker, op_resolved>>
    /\ UNCHANGED <<provider_vars, client_vars>>
    /\ UNCHANGED io_vars
    /\ UNCHANGED shutdown_vars

\* the operation returns or raises
OpFinish ==
    /\ op_pc \in {"finished", "raised"}
    /\ op' = "none"
    /\ op_pc' = "idle"
    /\ op_worker' = NoWorker
    /\ op_resolved' = 0
    /\ op_sent' = <<>>
    /\ g_key' = <<>>
    /\ UNCHANGED <<g_pc, g_count, worker_identities, g_attempts,
                   worker_addresses, seen_hash_ring, seen_len_map,
                   seen_get_map>>
    /\ UNCHANGED provider_vars
    /\ UNCHANGED io_vars
    /\ UNCHANGED shutdown_vars

\* the file system is built on a provider with a registry and a background
\* refresh
InitFacade ==
    /\ Init
    /\ config.etcd_hosts # <<>>
    /\ config.etcd_refresh_workers_interval > 0

Operate == OpStart \/ OpResolve \/ OpResolved \/ OpStatus \/ OpRequest \/ OpFinish

NextFacade ==
    \/ CtorEtcd \/ CtorRaise \/ CtorReturn
    \/ Refresh \/ Select \/ Operate

SpecFacade == InitFacade /\ [][NextFacade]_vars

\* the provider alone: construction and refresh
NextProvider == Construct \/ Refresh

SpecProvider == Init /\ [][NextProvider]_vars

\* the provider and its owner, who shuts the background refresh down
NextShutdown ==
    Construct \/ Refresh \/ BgExit \/ ShutdownCall \/ ShutdownJoin

SpecShutdown == Init /\ [][NextShutdown]_vars

\* the background thread is scheduled again and again, each of its registry
\* requests ends, and so does a join whose thread has ended
FairRefresh ==
    /\ WF_vars(Refresh \/ BgExit)
    /\ WF_vars(ShutdownJoin)

SpecShutdownLive == SpecShutdown /\ FairRefresh

----------------------------------------------------------------------------
(* Properties of the ring manager                                          *)

Min(a, b) == IF a <= b THEN a ELSE b

NoDuplicates(s) == \A i, j \in 1..Len(s) : i # j => s[i] # s[j]

FetchedIdentities == {e.worker_identity : e \in worker_entities}

\* the identity get_multiple_workers(key, 1) resolves on this ring and map
PreferredWorker(ring, worker_info_map, key) ==
    _get_multiple_worker_identities(ring, worker_info_map, key, 1).workers[1]

\* C1: every get_multiple_workers call computes its result from one published
\* ring/map pair: the ring its probing loop read is the complete ring built
\* from the map whose length capped the count, the addresses were read from
\* that same map, and every identity taken from the ring is a key of it.
C1_ConsistentPair ==
    /\ g_pc \in {"addresses", "done"} =>
          seen_hash_ring = NewHashRing(seen_len_map)
    /\ g_pc = "done" =>
          /\ seen_get_map = seen_len_map
          /\ \A i \in 1..Len(worker_identities) :
                DictHas(seen_get_map, worker_identities[i])
          /\ Len(worker_addresses) = Len(worker_identities)

\* a call completed while the background refresh is in the middle of a
\* replacement: the new ring is assigned, the new map is not yet
C1_Witness ==
    /\ g_pc = "done" /\ worker_identities # <<>>
    /\ caller = "bg" /\ pc = "pub_map"
    /\ hash_ring # NewHashRing(_worker_info_map)

\* C2: once the ring is initialized, a refresh that obtains no worker set
\* from any endpoint returns normally, and none of its steps changes the
\* ring, the map or the initialized flag.
C2_EmptyRefreshKeepsRing ==
    [][ /\ (pc = "fetch" /\ pc' = "check" /\ worker_entities' = {}
               /\ _is_ring_initialized)
            => UNCHANGED <<hash_ring, _worker_info_map, _is_ring_initialized>>
        /\ (pc = "check" /\ pc' # pc /\ worker_entities = {}
               /\ _is_ring_initialized)
            => /\ pc' = "returned"
               /\ UNCHANGED <<hash_ring, _worker_info_map,
                              _is_ring_initialized>> ]_vars

\* a background refresh returned after every endpoint failed
C2_Witness ==
    /\ caller = "bg" /\ pc = "returned"
    /\ worker_entities = {}
    /\ _is_ring_initialized /\ hash_ring # NoRing

\* C3: when a refresh that fetched a non-empty worker set different from the
\* map it started with has returned, the published map holds exactly the
\* fetched identity/address pairs and every ring entry is an identity of
\* the fetched set.
C3_DifferingFetchIsPublished ==
    (/\ pc = "returned"
     /\ worker_entities # {}
     /\ worker_entities # DictItems(fetch_start_map))
    => /\ _worker_info_map = new_worker_info_map
       /\ DictItems(_worker_info_map) = worker_entities
       /\ NoDuplicates(DictKeys(_worker_info_map))
       /\ hash_ring = NewHashRing(_worker_info_map)
       /\ \A k \in DOMAIN hash_ring : hash_ring[k] \in FetchedIdentities

\* a background refresh returned after fetching a set without one of the
\* workers of the map it started with
C3_Witness ==
    /\ caller = "bg" /\ pc = "returned"
    /\ worker_entities # {}
    /\ DictKeySet(fetch_start_map) \ FetchedIdentities # {}

\* C4: a refresh that fetched exactly the identity/address pairs of the
\* current map returns without calling _update_hash_ring: no ring is built
\* and the ring and the map stay as they are.
C4_IdenticalFetchKeepsRing ==
    [][ (/\ pc = "check" /\ pc' # pc
         /\ worker_entities # {}
         /\ worker_entities = DictItems(_worker_info_map))
        => /\ pc' = "returned"
           /\ UNCHANGED <<hash_ring, _worker_info_map, new_hash_ring,
                          _is_ring_initialized, _lock>> ]_vars

\* a background refresh returned after fetching the pairs of the current map
C4_Witness ==
    /\ caller = "bg" /\ pc = "returned"
    /\ worker_entities # {}
    /\ worker_entities = DictItems(fetch_start_map)
    /\ _worker_info_map = fetch_start_map

\* C5: in __init__ with a registry configuration, a first fetch without a
\* worker set raises, the exception ends the construction without starting
\* the background thread, and a construction that returns has an initialized,
\* non-empty ring.
C5_EmptyFirstFetchFails ==
    [][ /\ (caller = "ctor" /\ pc = "check" /\ pc' # pc
               /\ worker_entities = {})
            => pc' = "raised"
        /\ (caller = "ctor" /\ pc = "raised" /\ pc' # pc)
            => /\ ctor_pc' = "failed"
               /\ _background_thread' = "none"
               /\ pc' = "done"
        /\ ctor_pc' = "failed" => _background_thread' = "none"
        /\ ctor_pc' = "returned" =>
               /\ _is_ring_initialized'
               /\ hash_ring' # NoRing ]_vars

\* a construction failed on its first fetch
C5_Witness ==
    /\ ctor_pc = "failed"
    /\ config.etcd_hosts # <<>>
    /\ worker_entities = {}
    /\ ~_is_ring_initialized /\ _background_thread = "none"

\* C6: the result of a completed get_multiple_workers call is the same on
\* every ring built from the identities of the map in any insertion order:
\* the same set for every count and the same preferred worker for count 1.
C6_PlacementIndependentOfRing ==
    g_pc = "done" =>
        \A keys \in Orders(DictKeySet(seen_len_map)) :
           LET ring == InsertWorkers(NoRing, keys,
                           ALLUXIO_HASH_NODE_PER_WORKER_DEFAULT_VALUE)
               again == _get_multiple_worker_identities(
                            ring, seen_len_map, g_key, g_count)
           IN  /\ SeqToSet(again.workers) = SeqToSet(worker_identities)
               /\ g_count = 1 => again.workers = worker_identities

\* C7: when a refresh replaces the ring, a refresh that only adds workers
\* leaves every path's preferred worker the same or moves it to an added
\* worker, and a refresh that only removes workers changes the preferred
\* worker only of paths whose preferred worker was removed.
C7_MonotonePlacement ==
    [][ (pc = "pub_ring" /\ pc' = "pub_map" /\ _is_ring_initialized)
        => \A key \in Paths :
             LET old == PreferredWorker(hash_ring, _worker_info_map, key)
                 new == PreferredWorker(hash_ring', new_worker_info_map, key)
                 added == DictKeySet(new_worker_info_map)
                              \ DictKeySet(_worker_info_map)
                 removed == DictKeySet(_worker_info_map)
                              \ DictKeySet(new_worker_info_map)
             IN  /\ (added # {} /\ removed = {})
                       => (new = old \/ new \in added)
                 /\ (removed # {} /\ added = {})
                       => (new = old \/ old \in removed) ]_vars

\* C8: a completed call with a count of at least the number of workers
\* returned the addresses of all workers of the map.
C8_AllWorkersForLargeCount ==
    (g_pc = "done" /\ g_count >= Len(seen_len_map))
    => SeqToSet(worker_addresses)
          = {seen_get_map[i].v : i \in 1..Len(seen_get_map)}

\* C9: a completed call returned a list without duplicates, of at most
\* min(count, |W|) addresses, and of exactly that many when the probing loop
\* ended before its 100th attempt.
C9_DistinctAndBounded ==
    g_pc = "done" =>
        /\ NoDuplicates(worker_addresses)
        /\ NoDuplicates(worker_identities)
        /\ Len(worker_addresses) <= Min(g_count, Len(seen_len_map))
        /\ g_attempts < max_attempts =>
              Len(worker_addresses) = Min(g_count, Len(seen_len_map))

\* a call for two of three workers that skipped a repeated worker
C9_Witness ==
    /\ g_pc = "done"
    /\ g_count = 2 /\ Len(seen_len_map) = 3
    /\ Len(worker_addresses) = 2
    /\ g_attempts > 2 /\ g_attempts < max_attempts

\* C10: a public operation in progress has resolved its preferred worker at
\* most once, and all the requests it has sent went to one worker.
C10_OneWorkerPerOperation ==
    op # "none" =>
        /\ op_resolved <= 1
        /\ \A i, j \in 1..Len(op_sent) : op_sent[i] = op_sent[j]

----------------------------------------------------------------------------
(* AlluxioFileSystem and AlluxioAsyncFileSystem: the page I/O engine       *)

\* the variables of a call, without the position and the result
call_args == <<io_client, io_op, io_path, io_offset, io_length, io_page_bytes, timeout>>

\* the worker: its pages of the file
worker_vars == <<page_size, ufs_length, w_pages, io_written>>

ring_vars == <<provider_vars, client_vars, facade_vars, shutdown_vars>>

\* an HTTP request as the worker sees it; a full-page GET carries neither
\* offset nor length. answer is what the JSON body of a load answer says
Request(kind, idx, page_offset, page_length) ==
    [kind |-> kind, index |-> idx, page_offset |-> page_offset,
     page_length |-> page_length, outcome |-> "pending", status |-> 0,
     answer |-> ""]

\* the last request of the log, answered: with a status below 400, with
\* another status, or not at all
Answered(requests, outcome) ==
    [requests EXCEPT ![Len(requests)].outcome = outcome,
                     ![Len(requests)].status =
                         CASE outcome = "ok" -> 200
                           [] outcome = "status" -> 500
                           [] OTHER -> 0]

\* the last request of the log, answered with status 200 and a JSON body
\* that says answer
AnsweredJson(requests, answer) ==
    [requests EXCEPT ![Len(requests)].outcome = "ok",
                     ![Len(requests)].status = 200,
                     ![Len(requests)].answer = answer]

\* the last request of the log, answered with a status
AnsweredWith(requests, status) ==
    [requests EXCEPT ![Len(requests)].outcome =
                         IF status < 400 THEN "ok" ELSE "status",
                     ![Len(requests)].status = status]

\* read(file_path) is called
ReadCall ==
    /\ ctor_pc = "returned"
    /\ io_op = "none"
    /\ \E path \in PathArguments :
          /\ io_client' = "sync"
          /\ io_op' = "read"
          /\ io_path' = path
    /\ io_pc' = "validate"
    /\ UNCHANGED <<io_offset, io_length, io_page_bytes, timeout>>
    /\ UNCHANGED <<length, page_index, io_contents, io_requests, io_pending,
                   io_selected, io_worker, io_result, io_clock, io_polls>>
    /\ UNCHANGED <<worker_vars, ring_vars>>

\* self._validate_path(path), the first statement of every public method
ValidatePath ==
    /\ io_pc = "validate"
    /\ LET checked == _validate_path(io_path)
       IN  IF checked # "ok"
           THEN /\ io_pc' = "raised"
                /\ io_result' = Raised(checked)
           ELSE /\ io_pc' = IF io_op = "read_range"
                            THEN "check_offset" ELSE "resolve"
                /\ UNCHANGED io_result
    /\ UNCHANGED <<length, page_index, io_contents, io_requests, io_pending,
                   io_selected, io_worker, io_clock, io_polls>>
    /\ UNCHANGED <<call_args, worker_vars, ring_vars>>

\* range(offset, length): the pages a range covers and where it starts and
\* ends in them
start_page_index == io_offset \div page_size
start_page_offset == io_offset % page_size
end_page_index == (io_offset + length - 1) \div page_size
end_page_read_to == ((io_offset + length - 1) % page_size) + 1

\* the first page index of the generator of the call
FirstPageIndex == IF io_op = "read" THEN 0 ELSE start_page_index

\* _get_preferred_worker_address / _get_preferred_worker_host: ValueError
\* unless get_multiple_workers(path, 1) returns exactly one worker
Resolve ==
    /\ io_pc = "resolve"
    /\ LET found == _get_multiple_worker_identities(
                        hash_ring, _worker_info_map, io_path.bytes, 1)
           workers == AddressesOf(found.workers, _worker_info_map)
       IN  IF Len(workers) # 1
           THEN /\ io_pc' = "raised"
                /\ io_result' = Raised("ValueError")
                /\ UNCHANGED <<io_worker, io_selected, page_index>>
           ELSE /\ io_worker' = workers[1]
                /\ io_selected' = io_selected + 1
                /\ io_pc' = CASE io_op = "read" -> "page"
                              [] io_op = "read_range" ->
                                    IF io_client = "sync" THEN "page"
                                    ELSE "generate"
                              [] io_op = "write_page" -> "post"
                              [] io_op = "load" -> "submit"
                              [] OTHER -> "request"
                /\ page_index' = CASE io_op = "read" -> 0
                                   [] io_op = "read_range" -> start_page_index
                                   [] OTHER -> page_index
                /\ UNCHANGED io_result
    /\ UNCHANGED <<length, io_contents, io_requests, io_pending, io_clock,
                   io_polls>>
    /\ UNCHANGED <<call_args, worker_vars, ring_vars>>

\* the read_offset with its two cases exchanged: the first page is read
\* from its start
read_offset_at_page_start ==
    IF page_index = start_page_index THEN 0 ELSE start_page_offset

\* read_offset of the page request of _range_page_generator
read_offset ==
    IF page_index = start_page_index THEN start_page_offset ELSE 0

\* the read_length that takes every page but the first to its end
read_length_full_end_page ==
    IF page_index = start_page_index
    THEN IF start_page_index = end_page_index
         THEN end_page_read_to - start_page_offset
         ELSE page_size - start_page_offset
    ELSE page_size

\* the read_length that asks every page for page_size bytes
read_length_whole_page == page_size

\* read_length of the page request of _range_page_generator
read_length ==
    IF page_index = start_page_index
    THEN IF start_page_index = end_page_index
         THEN end_page_read_to - start_page_offset
         ELSE page_size - start_page_offset
    ELSE IF page_index = end_page_index
         THEN end_page_read_to
         ELSE page_size

\* read_range(file_path, offset, length) is called, on either client
ReadRangeCall ==
    /\ ctor_pc = "returned"
    /\ io_op = "none"
    /\ \E client \in {"sync", "async"}, path \in PathArguments,
          offset \in (-1)..(MaxFileLength + 1),
          len \in {NoneValue} \cup {IntValue(v) : v \in (-2)..(MaxFileLength + 1)} :
          /\ io_client' = client
          /\ io_path' = path
          /\ io_offset' = offset
          /\ io_length' = len
    /\ io_op' = "read_range"
    /\ io_pc' = "validate"
    /\ UNCHANGED <<io_page_bytes, timeout>>
    /\ UNCHANGED <<length, page_index, io_contents, io_requests, io_pending,
                   io_selected, io_worker, io_result, io_clock, io_polls>>
    /\ UNCHANGED <<worker_vars, ring_vars>>

\* read_range without the check of the offset
CheckOffsetUnchecked ==
    /\ UNCHANGED io_result
    /\ IF io_client = "sync"
          /\ (io_length = NoneValue \/ io_length = IntValue(-1))
       THEN /\ io_pc' = "stat_resolve"
            /\ UNCHANGED length
       ELSE /\ io_pc' = "check_length"
            /\ length' = io_length.value
    /\ io_pc = "check_offset"
    /\ UNCHANGED <<page_index, io_contents, io_requests, io_pending,
                   io_selected, io_worker, io_clock, io_polls>>
    /\ UNCHANGED <<call_args, worker_vars, ring_vars>>

\* read_range: ValueError unless offset is a non-negative int; then
\* AlluxioFileSystem asks get_file_status for the length when length is None
\* or -1
CheckOffset ==
    /\ io_pc = "check_offset"
    /\ IF io_offset < 0
       THEN /\ io_pc' = "raised"
            /\ io_result' = Raised("ValueError")
            /\ UNCHANGED length
       ELSE /\ UNCHANGED io_result
            /\ IF io_client = "sync"
                  /\ (io_length = NoneValue \/ io_length = IntValue(-1))
               THEN /\ io_pc' = "stat_resolve"
                    /\ UNCHANGED length
               ELSE /\ io_pc' = "check_length"
                    /\ length' = io_length.value
    /\ UNCHANGED <<page_index, io_contents, io_requests, io_pending,
                   io_selected, io_worker, io_clock, io_polls>>
    /\ UNCHANGED <<call_args, worker_vars, ring_vars>>

\* get_file_status(file_path) in read_range: the path passes _validate_path
\* again, then _get_preferred_worker_address
StatResolve ==
    /\ io_pc = "stat_resolve"
    /\ LET found == _get_multiple_worker_identities(
                        hash_ring, _worker_info_map, io_path.bytes, 1)
           workers == AddressesOf(found.workers, _worker_info_map)
       IN  IF Len(workers) # 1
           THEN /\ io_pc' = "raised"
                /\ io_result' = Raised("ValueError")
                /\ UNCHANGED <<io_worker, io_selected>>
           ELSE /\ io_worker' = workers[1]
                /\ io_selected' = io_selected + 1
                /\ io_pc' = "stat_request"
                /\ UNCHANGED io_result
    /\ UNCHANGED <<length, page_index, io_contents, io_requests, io_pending,
                   io_clock, io_polls>>
    /\ UNCHANGED <<call_args, worker_vars, ring_vars>>

\* get_file_status: the GET of the file status
StatRequest ==
    /\ io_pc = "stat_request"
    /\ io_requests' = Append(io_requests,
                             Request("status", 0, NoneValue, NoneValue))
    /\ io_pending' = io_pending + 1
    /\ io_pc' = "stat_wait"
    /\ UNCHANGED <<length, page_index, io_contents, io_selected, io_worker,
                   io_result, io_clock, io_polls>>
    /\ UNCHANGED <<call_args, worker_vars, ring_vars>>

\* get_file_status: raise_for_status(), the connection or the decoding
\* raises, or length = file_status.length - offset
StatResponse ==
    /\ io_pc = "stat_wait"
    /\ io_pending' = io_pending - 1
    /\ \E outcome \in {"ok", "status", "connection"} :
          /\ io_requests' = Answered(io_requests, outcome)
          /\ IF outcome # "ok"
             THEN /\ io_pc' = "raised"
                  /\ io_result' = Raised("Exception")
                  /\ UNCHANGED length
             ELSE /\ length' = ufs_length - io_offset
                  /\ io_pc' = "check_length"
                  /\ UNCHANGED io_result
    /\ UNCHANGED <<page_index, io_contents, io_selected, io_worker, io_clock,
                   io_polls>>
    /\ UNCHANGED <<call_args, worker_vars, ring_vars>>

\* read_range. AlluxioFileSystem: b"" for length 0, ValueError for a
\* negative length. AlluxioAsyncFileSystem: ValueError unless length is a
\* positive int or -1
CheckLength ==
    /\ io_pc = "check_length"
    /\ IF io_client = "sync"
       THEN IF length = 0
            THEN /\ io_pc' = "returned"
                 /\ io_result' = ReturnedBytes(<<>>)
            ELSE IF length < 0
                 THEN /\ io_pc' = "raised"
                      /\ io_result' = Raised("ValueError")
                 ELSE /\ io_pc' = "resolve"
                      /\ UNCHANGED io_result
       ELSE IF io_length.type # "int" \/ (length <= 0 /\ length # -1)
            THEN /\ io_pc' = "raised"
                 /\ io_result' = Raised("ValueError")
            ELSE /\ io_pc' = "resolve"
                 /\ UNCHANGED io_result
    /\ UNCHANGED <<length, page_index, io_contents, io_requests, io_pending,
                   io_selected, io_worker, io_clock, io_polls>>
    /\ UNCHANGED <<call_args, worker_vars, ring_vars>>

\* AlluxioAsyncFileSystem._range_page_generator: _read_page is called without
\* await, so page_content is a coroutine and no request is sent yet. The
\* loop breaks when page_index == end_page_index; otherwise
\* len(page_content) raises TypeError. end_page_index is None for length -1
AsyncGenerate ==
    /\ io_pc = "generate"
    /\ IF length # -1 /\ start_page_index = end_page_index
       THEN /\ io_pc' = "page"
            /\ UNCHANGED io_result
       ELSE /\ io_pc' = "raised"
            /\ io_result' = Raised("TypeError")
    /\ UNCHANGED <<length, page_index, io_contents, io_requests, io_pending,
                   io_selected, io_worker, io_clock, io_polls>>
    /\ UNCHANGED <<call_args, worker_vars, ring_vars>>

\* _read_page sends the GET of the page: the full page for read, offset and
\* length in the page for read_range
PageRequest ==
    /\ io_pc = "page"
    /\ io_requests' = Append(io_requests,
           IF io_op = "read"
           THEN Request("page", page_index, NoneValue, NoneValue)
           ELSE Request("page", page_index, IntValue(read_offset),
                        IntValue(read_length)))
    /\ io_pending' = io_pending + 1
    /\ io_pc' = "page_wait"
    /\ UNCHANGED <<length, page_index, io_contents, io_selected, io_worker,
                   io_result, io_clock, io_polls>>
    /\ UNCHANGED <<call_args, worker_vars, ring_vars>>

\* the generator that raises the exception of every page
PageFailedAlwaysRaising ==
    /\ io_pc' = "raised"
    /\ io_result' = Raised("Exception")

\* the generator after a page request raised: the first page's exception is
\* raised, a later one ends the generator
PageFailed ==
    IF page_index = FirstPageIndex
    THEN /\ io_pc' = "raised"
         /\ io_result' = Raised("Exception")
    ELSE /\ io_pc' = "returned"
         /\ io_result' = ReturnedBytes(JoinBytes(io_contents))

\* the generator that goes on after a short page, until an empty one
AllPageStepPastShortPage(page_content) ==
    IF page_content = <<>>
    THEN /\ io_pc' = "returned"
         /\ io_result' = ReturnedBytes(JoinBytes(io_contents))
         /\ UNCHANGED <<io_contents, page_index>>
    ELSE /\ io_contents' = Append(io_contents, page_content)
         /\ io_pc' = "page"
         /\ page_index' = page_index + 1
         /\ UNCHANGED io_result

\* _all_page_generator after page_content arrived
AllPageStep(page_content) ==
    IF page_content = <<>>
    THEN /\ io_pc' = "returned"
         /\ io_result' = ReturnedBytes(JoinBytes(io_contents))
         /\ UNCHANGED <<io_contents, page_index>>
    ELSE /\ io_contents' = Append(io_contents, page_content)
         /\ IF Len(page_content) < page_size
            THEN /\ io_pc' = "returned"
                 /\ io_result' = ReturnedBytes(JoinBytes(io_contents'))
                 /\ UNCHANGED page_index
            ELSE /\ io_pc' = "page"
                 /\ page_index' = page_index + 1
                 /\ UNCHANGED io_result

\* the generator that does not stop at end_page_index
RangePageStepPastEndPage(page_content) ==
    /\ io_contents' = Append(io_contents, page_content)
    /\ IF Len(page_content) < read_length
       THEN /\ io_pc' = "returned"
            /\ io_result' = ReturnedBytes(JoinBytes(io_contents'))
            /\ UNCHANGED page_index
       ELSE /\ io_pc' = "page"
            /\ page_index' = page_index + 1
            /\ UNCHANGED io_result

\* the generator that asks for the same page again
RangePageStepSamePage(page_content) ==
    /\ io_contents' = Append(io_contents, page_content)
    /\ IF page_index = end_page_index \/ Len(page_content) < read_length
       THEN /\ io_pc' = "returned"
            /\ io_result' = ReturnedBytes(JoinBytes(io_contents'))
            /\ UNCHANGED page_index
       ELSE /\ io_pc' = "page"
            /\ UNCHANGED <<page_index, io_result>>

\* the generator that goes on after a short page, up to end_page_index
RangePageStepPastShortPage(page_content) ==
    /\ io_contents' = Append(io_contents, page_content)
    /\ IF page_index = end_page_index
       THEN /\ io_pc' = "returned"
            /\ io_result' = ReturnedBytes(JoinBytes(io_contents'))
            /\ UNCHANGED page_index
       ELSE /\ io_pc' = "page"
            /\ page_index' = page_index + 1
            /\ UNCHANGED io_result

\* _range_page_generator after page_content arrived
RangePageStep(page_content) ==
    /\ io_contents' = Append(io_contents, page_content)
    /\ IF page_index = end_page_index \/ Len(page_content) < read_length
       THEN /\ io_pc' = "returned"
            /\ io_result' = ReturnedBytes(JoinBytes(io_contents'))
            /\ UNCHANGED page_index
       ELSE /\ io_pc' = "page"
            /\ page_index' = page_index + 1
            /\ UNCHANGED io_result

\* the body of a response with an error status
ErrorBody == <<0>>

\* AlluxioAsyncFileSystem: the coroutine of the only page of the range was
\* awaited by asyncio.gather
AsyncPageStep(page_content) ==
    /\ io_contents' = Append(io_contents, page_content)
    /\ io_pc' = "returned"
    /\ io_result' = ReturnedBytes(JoinBytes(io_contents'))
    /\ UNCHANGED page_index

\* the response of the page GET. AlluxioFileSystem: raise_for_status() or
\* the connection raises, or response.content is the body the worker serves.
\* AlluxioAsyncFileSystem: _request returns the body whatever the status is,
\* and only the connection raises
PageResponse ==
    /\ io_pc = "page_wait"
    /\ io_pending' = io_pending - 1
    /\ \E outcome \in {"ok", "status", "connection"} :
          /\ io_requests' = Answered(io_requests, outcome)
          /\ IF io_client = "sync"
             THEN IF outcome # "ok"
                  THEN PageFailed /\ UNCHANGED <<io_contents, page_index>>
                  ELSE IF io_op = "read"
                       THEN AllPageStep(ServeFullPage(w_pages, page_index))
                       ELSE RangePageStep(
                                ServePageRange(w_pages, page_index,
                                               read_offset, read_length))
             ELSE IF outcome = "connection"
                  THEN /\ io_pc' = "raised"
                       /\ io_result' = Raised("ClientError")
                       /\ UNCHANGED <<io_contents, page_index>>
                  ELSE AsyncPageStep(
                           IF outcome = "status" THEN ErrorBody
                           ELSE ServePageRange(w_pages, page_index,
                                               read_offset, read_length))
    /\ UNCHANGED <<length, io_selected, io_worker, io_clock, io_polls>>
    /\ UNCHANGED <<call_args, worker_vars, ring_vars>>

MaxWriteIndex == 1

\* a full page of p bytes for page idx, with no byte of the file in it
FreshPage(idx, p) == [k \in 1..p |-> 10 * (idx + 1) + k]

\* statuses the worker answers a page POST with
PostStatuses == {200, 204, 304, 404, 500}

\* write_page(file_path, page_index, page_bytes) is called with a full page,
\* on either client
WritePageCall ==
    /\ ctor_pc = "returned"
    /\ io_op = "none"
    /\ \E client \in {"sync", "async"}, path \in PathArguments,
          idx \in 0..MaxWriteIndex :
          /\ io_client' = client
          /\ io_path' = path
          /\ page_index' = idx
          /\ io_page_bytes' = FreshPage(idx, page_size)
    /\ io_op' = "write_page"
    /\ io_pc' = "validate"
    /\ UNCHANGED <<io_offset, io_length, timeout>>
    /\ UNCHANGED <<length, io_contents, io_requests, io_pending,
                   io_selected, io_worker, io_result, io_clock, io_polls>>
    /\ UNCHANGED <<worker_vars, ring_vars>>

\* write_page: the POST of the page
PostRequest ==
    /\ io_pc = "post"
    /\ io_requests' = Append(io_requests,
                             Request("write", page_index, NoneValue, NoneValue))
    /\ io_pending' = io_pending + 1
    /\ io_pc' = "post_wait"
    /\ UNCHANGED <<length, page_index, io_contents, io_selected, io_worker,
                   io_result, io_clock, io_polls>>
    /\ UNCHANGED <<call_args, worker_vars, ring_vars>>

\* response.raise_for_status(): HTTPError for 400 <= status_code < 600
raise_for_status(status_code) == 400 <= status_code /\ status_code < 600

\* write_page after the POST. AlluxioFileSystem: a RequestException (the
\* connection, or raise_for_status) is raised as Exception, otherwise the
\* result is 200 <= status_code < 300. AlluxioAsyncFileSystem: the
\* connection raises, otherwise the result is 200 <= status < 300.
\* The worker stores the page when it answers with a 2xx status
PostResponse ==
    /\ io_pc = "post_wait"
    /\ io_pending' = io_pending - 1
    /\ \/ /\ io_requests' = Answered(io_requests, "connection")
          /\ io_pc' = "raised"
          /\ io_result' = Raised(IF io_client = "sync"
                                 THEN "Exception" ELSE "ClientError")
          /\ UNCHANGED <<w_pages, io_written>>
       \/ \E status \in PostStatuses :
            /\ io_requests' = AnsweredWith(io_requests, status)
            /\ IF 200 <= status /\ status < 300
               THEN /\ w_pages' = [w_pages EXCEPT ![page_index] = io_page_bytes]
                    /\ io_written' =
                           [io_written EXCEPT ![page_index] = io_page_bytes]
               ELSE UNCHANGED <<w_pages, io_written>>
            /\ IF io_client = "sync" /\ raise_for_status(status)
               THEN /\ io_pc' = "raised"
                    /\ io_result' = Raised("Exception")
               ELSE /\ io_pc' = "returned"
                    /\ io_result' = ReturnedFlag(200 <= status /\ status < 300)
    /\ UNCHANGED <<length, page_index, io_contents, io_selected, io_worker,
                   io_clock, io_polls>>
    /\ UNCHANGED <<call_args, page_size, ufs_length, ring_vars>>

\* the public methods that validate the path, resolve the worker and send
\* one GET
MetadataOperations ==
    {"listdir", "get_file_status", "submit_load", "stop_load", "load_progress"}

\* one of them is called
MetadataCall ==
    /\ ctor_pc = "returned"
    /\ io_op = "none"
    /\ \E method \in MetadataOperations, path \in PathArguments :
          /\ io_op' = method
          /\ io_path' = path
    /\ io_client' = "sync"
    /\ io_pc' = "validate"
    /\ UNCHANGED <<io_offset, io_length, io_page_bytes, timeout>>
    /\ UNCHANGED <<length, page_index, io_contents, io_requests, io_pending,
                   io_selected, io_worker, io_result, io_clock, io_polls>>
    /\ UNCHANGED <<worker_vars, ring_vars>>

\* its GET
MetadataRequest ==
    /\ io_pc = "request"
    /\ io_requests' = Append(io_requests,
                             Request(io_op, 0, NoneValue, NoneValue))
    /\ io_pending' = io_pending + 1
    /\ io_pc' = "request_wait"
    /\ UNCHANGED <<length, page_index, io_contents, io_selected, io_worker,
                   io_result, io_clock, io_polls>>
    /\ UNCHANGED <<call_args, worker_vars, ring_vars>>

\* raise_for_status(), the connection or the decoding raises, or the decoded
\* answer is returned
MetadataResponse ==
    /\ io_pc = "request_wait"
    /\ io_pending' = io_pending - 1
    /\ \E outcome \in {"ok", "status", "connection"} :
          /\ io_requests' = Answered(io_requests, outcome)
          /\ IF outcome # "ok"
             THEN /\ io_pc' = "raised"
                  /\ io_result' = Raised("Exception")
             ELSE /\ io_pc' = "returned"
                  /\ io_result' = ReturnedFlag(TRUE)
    /\ UNCHANGED <<length, page_index, io_contents, io_selected, io_worker,
                   io_clock, io_polls>>
    /\ UNCHANGED <<call_args, worker_vars, ring_vars>>

MaxPolls == 4

\* seconds of the sleep between two polls, and the least time left before
\* stop_time for which load goes on
poll_interval == 10

\* the values of the enum LoadState
LoadStates == {"RUNNING", "VERIFYING", "STOPPED", "SUCCEEDED", "FAILED"}

\* jobState values the worker answers a progress request with
JobStateAnswers == LoadStates \cup {"JOB_FAILED", "UNKNOWN"}

\* a progress answer whose JSON object has no "jobState"
NoJobState == "no jobState"

\* what a progress answer may say
ProgressAnswers == JobStateAnswers \cup {NoJobState}

\* "FAILED" in state
ContainsFailed(state) == state \in {"FAILED", "JOB_FAILED"}

\* LoadState.FAILED when the value contains "FAILED", else LoadState(state),
\* which raises ValueError for a value that is no LoadState
job_state_of(state) ==
    IF ContainsFailed(state) THEN "FAILED"
    ELSE IF state \in LoadStates THEN state
    ELSE "ValueError"

\* AlluxioFileSystem._load_progress_internal on the decoded content: the
\* LoadState it returns, or the error it raises (wrapped in an Exception)
_load_progress_internal(content) ==
    IF content = NoJobState THEN "KeyError" ELSE job_state_of(content)

\* alluxiofs.load.load_progress_internal on the decoded content: the
\* LoadState it returns, or the error it raises (wrapped in a LoadException)
load_progress_internal(content) ==
    IF content = NoJobState THEN "KeyError"
    ELSE IF ContainsFailed(content) THEN "FAILED"
    ELSE IF content \in LoadStates THEN content
    ELSE "ValueError"

\* AlluxioAsyncFileSystem._load_progress_internal on the decoded content:
\* LoadState(content["jobState"]) without the test for "FAILED"
_load_progress_internal_async(content) ==
    IF content = NoJobState THEN "KeyError"
    ELSE IF content \in LoadStates THEN content
    ELSE "ValueError"

\* the decoding done by the client of the call
DecodeProgress(client, content) ==
    CASE client = "sync" -> _load_progress_internal(content)
      [] client = "module" -> load_progress_internal(content)
      [] OTHER -> _load_progress_internal_async(content)

\* the timeouts of the calls of the model
Timeouts == {NoneValue, IntValue(0), IntValue(15), IntValue(25)}

\* load(path, timeout) is called on AlluxioFileSystem or on
\* AlluxioAsyncFileSystem (whose load returns the coroutine of _load_file,
\* which the caller awaits as well)
LoadCall ==
    /\ ctor_pc = "returned"
    /\ io_op = "none"
    /\ \E client \in {"sync", "async"}, path \in PathArguments,
          seconds \in Timeouts :
          /\ io_client' = client
          /\ io_path' = path
          /\ timeout' = seconds
    /\ io_op' = "load"
    /\ io_pc' = "validate"
    /\ UNCHANGED <<io_offset, io_length, io_page_bytes>>
    /\ UNCHANGED <<length, page_index, io_contents, io_requests, io_pending,
                   io_selected, io_worker, io_result, io_clock, io_polls>>
    /\ UNCHANGED <<worker_vars, ring_vars>>

\* alluxiofs.load.load_file(session, worker_host, worker_http_port, path,
\* timeout, verbose) is called with the address of a worker
LoadFileCall ==
    /\ ctor_pc = "returned"
    /\ io_op = "none"
    /\ \E path \in {StrPath(PathX), StrPath(PathX77)},
          seconds \in Timeouts, k \in 1..Len(_worker_info_map) :
          /\ io_path' = path
          /\ timeout' = seconds
          /\ io_worker' = _worker_info_map[k].v
    /\ io_client' = "module"
    /\ io_op' = "load"
    /\ io_pc' = "submit"
    /\ UNCHANGED <<io_offset, io_length, io_page_bytes>>
    /\ UNCHANGED <<length, page_index, io_contents, io_requests, io_pending,
                   io_selected, io_result, io_clock, io_polls>>
    /\ UNCHANGED <<worker_vars, ring_vars>>

\* _load_file / load_file: the GET with opType submit
SubmitRequest ==
    /\ io_pc = "submit"
    /\ io_requests' = Append(io_requests,
                             Request("submit", 0, NoneValue, NoneValue))
    /\ io_pending' = io_pending + 1
    /\ io_pc' = "submit_wait"
    /\ UNCHANGED <<length, page_index, io_contents, io_selected, io_worker,
                   io_result, io_clock, io_polls>>
    /\ UNCHANGED <<call_args, worker_vars, ring_vars>>

\* what _load_file does with an exception raised inside it: the try block
\* of AlluxioFileSystem._load_file and of load_file returns False, the
\* coroutine of AlluxioAsyncFileSystem has no try block
LoadError(client, error) ==
    IF client = "async" THEN Raised(error) ELSE ReturnedFlag(FALSE)

\* what the JSON body of a submit answer may say
SubmitAnswers == {"success: true", "success: false"}

\* the submit answer that is polled whatever it says
AfterSubmitAlwaysPolls(content) == "poll"

\* if not content[ALLUXIO_SUCCESS_IDENTIFIER]: return False
AfterSubmit(content) ==
    IF content # "success: true" THEN "False" ELSE "poll"

\* the answer to the submit request. A request that fails, or an answer
\* without the load result (one with an error status), raises inside
\* _load_file; False is returned when "success" is false; otherwise
\* stop_time is set and the polling begins
SubmitResponse ==
    /\ io_pc = "submit_wait"
    /\ io_pending' = io_pending - 1
    /\ \/ \E outcome \in {"status", "connection"} :
            /\ io_requests' = Answered(io_requests, outcome)
            /\ io_result' = LoadError(io_client, "Exception")
            /\ io_pc' = IF io_client = "async" THEN "raised" ELSE "returned"
       \/ \E content \in SubmitAnswers :
            /\ io_requests' = AnsweredJson(io_requests, content)
            /\ IF AfterSubmit(content) = "False"
               THEN /\ io_result' = ReturnedFlag(FALSE)
                    /\ io_pc' = "returned"
               ELSE /\ io_pc' = "poll"
                    /\ UNCHANGED io_result
    /\ io_clock' = 0
    /\ UNCHANGED <<length, page_index, io_contents, io_selected, io_worker,
                   io_polls>>
    /\ UNCHANGED <<call_args, worker_vars, ring_vars>>

\* _load_progress_internal: the GET with opType progress
PollRequest ==
    /\ io_pc = "poll"
    /\ io_requests' = Append(io_requests,
                             Request("progress", 0, NoneValue, NoneValue))
    /\ io_pending' = io_pending + 1
    /\ io_pc' = "poll_wait"
    /\ UNCHANGED <<length, page_index, io_contents, io_selected, io_worker,
                   io_result, io_clock, io_polls>>
    /\ UNCHANGED <<call_args, worker_vars, ring_vars>>

\* the loop that keeps polling a stopped job
AfterPollStoppedGoesOn(job_state, now) ==
    IF job_state = "SUCCEEDED" THEN "True"
    ELSE IF job_state = "FAILED" THEN "False"
    ELSE IF timeout = NoneValue \/ timeout.value - now >= poll_interval
         THEN "sleep"
         ELSE "False"

\* the loop that sleeps whenever stop_time has not passed
AfterPollSleepsUntilStopTime(job_state, now) ==
    IF job_state = "SUCCEEDED" THEN "True"
    ELSE IF job_state = "FAILED" THEN "False"
    ELSE IF job_state = "STOPPED" THEN "False"
    ELSE IF timeout = NoneValue \/ timeout.value - now > 0
         THEN "sleep"
         ELSE "False"

\* the loop that sleeps while one second is left before stop_time
AfterPollOneSecondLeft(job_state, now) ==
    IF job_state = "SUCCEEDED" THEN "True"
    ELSE IF job_state = "FAILED" THEN "False"
    ELSE IF job_state = "STOPPED" THEN "False"
    ELSE IF timeout = NoneValue \/ timeout.value - now >= 1
         THEN "sleep"
         ELSE "False"

\* the loop of _load_file after a poll returned job_state at time now:
\* return True, return False, or sleep and poll again
AfterPoll(job_state, now) ==
    IF job_state = "SUCCEEDED" THEN "True"
    ELSE IF job_state = "FAILED" THEN "False"
    ELSE IF job_state = "STOPPED" THEN "False"
    ELSE IF timeout = NoneValue \/ timeout.value - now >= poll_interval
         THEN "sleep"
         ELSE "False"

\* the answer to a progress request, which took 0 or 1 seconds. A request
\* that fails, an answer with an error status (which carries no jobState)
\* and an answer that cannot be decoded raise inside _load_file; otherwise
\* the loop goes on as AfterPoll says. A loop that no sleep bounds (no
\* timeout, or the sleep of the coroutine) ends within MaxPolls polls
PollResponse ==
    /\ io_pc = "poll_wait"
    /\ io_pending' = io_pending - 1
    /\ \E took \in 0..1 :
       /\ io_clock' = io_clock + took
       /\ \/ \E outcome \in {"status", "connection"} :
               /\ io_requests' = Answered(io_requests, outcome)
               /\ io_result' = LoadError(io_client, "Exception")
               /\ io_pc' = IF io_client = "async" THEN "raised"
                           ELSE "returned"
               /\ UNCHANGED io_polls
          \/ \E content \in ProgressAnswers :
               LET job_state == DecodeProgress(io_client, content)
                   next == AfterPoll(job_state, io_clock + took)
               IN  /\ io_requests' = AnsweredJson(io_requests, content)
                   /\ (/\ timeout = NoneValue \/ io_client = "async"
                       /\ Len(io_polls) + 1 >= MaxPolls)
                      => job_state \notin {"RUNNING", "VERIFYING"}
                   /\ IF job_state \notin LoadStates
                      THEN /\ io_result' = LoadError(io_client, job_state)
                           /\ io_pc' = IF io_client = "async" THEN "raised"
                                       ELSE "returned"
                           /\ UNCHANGED io_polls
                      ELSE /\ io_polls' = Append(io_polls, job_state)
                           /\ IF next = "sleep"
                              THEN /\ io_pc' = "sleep"
                                   /\ UNCHANGED io_result
                              ELSE /\ io_pc' = "returned"
                                   /\ io_result' = ReturnedFlag(next = "True")
    /\ UNCHANGED <<length, page_index, io_contents, io_selected, io_worker>>
    /\ UNCHANGED <<call_args, worker_vars, ring_vars>>

\* time.sleep(10) of _load_file and of load_file. The coroutine calls
\* asyncio.sleep(10) without awaiting it, so that no time passes
Sleep ==
    /\ io_pc = "sleep"
    /\ io_clock' = IF io_client = "async" THEN io_clock
                   ELSE io_clock + poll_interval
    /\ io_pc' = "poll"
    /\ UNCHANGED <<length, page_index, io_contents, io_requests, io_pending,
                   io_selected, io_worker, io_result, io_polls>>
    /\ UNCHANGED <<call_args, worker_vars, ring_vars>>

\* the caller has the result or the exception; the next call may begin
CallEnds ==
    /\ io_pc \in {"returned", "raised"}
    /\ io_client' = "sync"
    /\ io_op' = "none"
    /\ io_pc' = "idle"
    /\ io_path' = NoPath
    /\ io_offset' = 0
    /\ io_length' = NoneValue
    /\ length' = 0
    /\ page_index' = 0
    /\ io_page_bytes' = <<>>
    /\ io_contents' = <<>>
    /\ io_requests' = <<>>
    /\ io_pending' = 0
    /\ io_selected' = 0
    /\ io_worker' = NoWorker
    /\ io_result' = NoResult
    /\ timeout' = NoneValue
    /\ io_clock' = 0
    /\ io_polls' = <<>>
    /\ UNCHANGED <<worker_vars, ring_vars>>

\* an AlluxioFileSystem built with worker_hosts, on a worker that holds the
\* pages of a file
InitPages ==
    /\ config \in {c \in Configs : c.worker_hosts = <<"h1", "h2", "h3">>}
    /\ InitProvider
    /\ page_size \in 1..MaxPageSize
    /\ ufs_length \in 0..MaxFileLength
    /\ w_pages = PagesOfFile(ufs_length, page_size)
    /\ io_written = NothingWritten
    /\ IoIdle

BuildStatic ==
    CtorStatic \/ UpdateAcquire \/ PubRing \/ PubMap \/ PubFlag \/ CtorReturn

ReadPages == ReadCall \/ ValidatePath \/ Resolve \/ PageRequest \/ PageResponse

ReadRange ==
    \/ ReadRangeCall \/ CheckOffset \/ StatResolve \/ StatRequest
    \/ StatResponse \/ CheckLength \/ AsyncGenerate

WritePage == WritePageCall \/ PostRequest \/ PostResponse

Metadata == MetadataCall \/ MetadataRequest \/ MetadataResponse

Load ==
    \/ LoadCall \/ LoadFileCall \/ SubmitRequest \/ SubmitResponse
    \/ PollRequest \/ PollResponse \/ Sleep

\* reads, writes and the metadata requests on a worker that holds a file
NextPages ==
    \/ BuildStatic \/ ReadPages \/ ReadRange \/ WritePage \/ Metadata
    \/ CallEnds

SpecPages == InitPages /\ [][NextPages]_vars

\* read_range alone, on a worker that holds a file
NextRange ==
    \/ BuildStatic \/ ReadRange \/ ValidatePath \/ Resolve
    \/ PageRequest \/ PageResponse \/ CallEnds

SpecRange == InitPages /\ [][NextRange]_vars

\* the generator is sequential code: once it is at the request of a page it
\* sends it
FairRange == WF_vars(PageRequest)

SpecRangeLive == SpecRange /\ FairRange

\* a file system built with worker_hosts, on a worker that holds an empty
\* file
InitLoad ==
    /\ Init
    /\ config.worker_hosts = <<"h1", "h2", "h3">>

NextLoad == BuildStatic \/ ValidatePath \/ Resolve \/ Load \/ CallEnds

SpecLoad == InitLoad /\ [][NextLoad]_vars

\* load on a worker that answers every request: no step of the call is
\* postponed for ever
FairLoad ==
    /\ WF_vars(BuildStatic)
    /\ WF_vars(ValidatePath) /\ WF_vars(Resolve)
    /\ WF_vars(SubmitRequest) /\ WF_vars(SubmitResponse)
    /\ WF_vars(PollRequest) /\ WF_vars(PollResponse) /\ WF_vars(Sleep)

SpecLoadLive == SpecLoad /\ FairLoad

\* every public method of the file system
NextClient == NextPages \/ Load

SpecClient == InitLoad /\ [][NextClient]_vars

----------------------------------------------------------------------------
(* Properties of the page I/O engine                                       *)

\* the bodies of pages 0 .. n-1 of a page store, one after the other
RECURSIVE PagesBefore(_, _)
PagesBefore(pages, n) ==
    IF n = 0 THEN <<>>
    ELSE PagesBefore(pages, n - 1) \o PageAt(pages, n - 1)

\* the page GETs of the call, in the order they were issued
PageRequests == SelectSeq(io_requests, LAMBDA q : q.kind = "page")

\* the worker holds exactly the pages of the file
FaithfulWorker == w_pages = PagesOfFile(ufs_length, page_size)

\* C11: when read(path) returns, its page requests went to pages 0, 1, 2, ...
\* in this order, every page before the last requested one had a full body,
\* no page was requested after one with an empty or short body, and the
\* result is the bodies received, in page order (an empty body adds
\* nothing); from a worker that holds exactly the file and answers every
\* request, the result is the whole file
C11_ReadReturnsPagesToFirstShort ==
    (io_op = "read" /\ io_pc = "returned") =>
        LET n == Len(PageRequests)
            got == IF PageRequests[n].outcome = "ok" THEN n ELSE n - 1
        IN  /\ n >= 1
            /\ \A k \in 1..n : PageRequests[k].index = k - 1
            /\ \A k \in 1..(n - 1) :
                  /\ PageRequests[k].outcome = "ok"
                  /\ Len(PageAt(w_pages, k - 1)) = page_size
            /\ PageRequests[n].outcome = "ok" =>
                  Len(PageAt(w_pages, n - 1)) < page_size
            /\ io_result.bytes = PagesBefore(w_pages, got)
            /\ (FaithfulWorker /\ PageRequests[n].outcome = "ok") =>
                  io_result.bytes = UfsFile(ufs_length)

\* read returned a file of more than one page whose last page is short
C11_Witness ==
    /\ io_op = "read" /\ io_pc = "returned"
    /\ FaithfulWorker
    /\ ufs_length > page_size /\ ufs_length % page_size # 0
    /\ \A k \in 1..Len(io_requests) : io_requests[k].outcome = "ok"
    /\ io_result.bytes = UfsFile(ufs_length)

\* every request of the call was answered with the body the worker serves
AllAnsweredOk == \A k \in 1..Len(io_requests) : io_requests[k].outcome = "ok"

\* the call is over: it returned or raised
CallOver == io_pc \in {"returned", "raised"}

\* C12: AlluxioFileSystem.read_range(path, offset, length) with
\* 0 <= offset <= L, on a worker that holds exactly the file of length L and
\* answers every request, returns file[offset : min(offset + length, L)] for
\* length >= 1 and file[offset : L] for length -1 or None
C12_ReadRangeReturnsTheRange ==
    (/\ io_op = "read_range" /\ io_client = "sync" /\ CallOver
     /\ _validate_path(io_path) = "ok"
     /\ 0 <= io_offset /\ io_offset <= ufs_length
     /\ io_length = NoneValue \/ io_length.value = -1 \/ io_length.value >= 1
     /\ FaithfulWorker /\ AllAnsweredOk)
    => /\ io_pc = "returned"
       /\ io_result.bytes =
             PySlice(UfsFile(ufs_length), io_offset,
                     IF io_length.type = "int" /\ io_length.value >= 1
                     THEN io_offset + io_length.value ELSE ufs_length)

\* a range that begins inside one page, crosses a page boundary and extends
\* past the end of the file was returned
C12_Witness ==
    /\ io_op = "read_range" /\ io_client = "sync" /\ io_pc = "returned"
    /\ FaithfulWorker /\ AllAnsweredOk
    /\ io_offset % page_size # 0
    /\ io_length.type = "int" /\ io_offset + io_length.value > ufs_length
    /\ Len(PageRequests) >= 2
    /\ io_result.bytes = PySlice(UfsFile(ufs_length), io_offset, ufs_length)

\* the range of the read_range call lies inside one page, and that page was
\* stored by a successful write_page
RangeInWrittenPage ==
    /\ io_length.type = "int" /\ io_length.value >= 1
    /\ 0 <= io_offset
    /\ io_offset \div page_size = (io_offset + io_length.value - 1) \div page_size
    /\ PageAt(io_written, io_offset \div page_size) # <<>>

\* C13: after write_page(path, i, bytes) with a full page succeeded,
\* read_range(path, i * P, P) returns bytes, and read_range of a range
\* inside page i returns that slice of bytes (every request answered)
C13_WritePageReadRangeRoundTrip ==
    (/\ io_op = "read_range" /\ CallOver
     /\ _validate_path(io_path) = "ok"
     /\ RangeInWrittenPage /\ AllAnsweredOk)
    => /\ io_pc = "returned"
       /\ io_result.bytes =
             PySlice(PageAt(io_written, io_offset \div page_size),
                     io_offset % page_size,
                     (io_offset % page_size) + io_length.value)

\* a range that begins after the start of a written page of two bytes and
\* ends at its end was read back, by the async client
C13_Witness ==
    /\ io_op = "read_range" /\ io_client = "async" /\ io_pc = "returned"
    /\ RangeInWrittenPage /\ AllAnsweredOk
    /\ page_size = 2 /\ io_offset \div page_size = 1 /\ io_offset % page_size = 1
    /\ io_result.bytes = <<22>>

\* the bodies the worker served for the answered page requests of a log,
\* one after the other
RECURSIVE BodiesServed(_, _)
BodiesServed(requests, pages) ==
    IF requests = <<>> THEN <<>>
    ELSE LET q == Head(requests)
             body == IF q.page_offset = NoneValue
                     THEN ServeFullPage(pages, q.index)
                     ELSE ServePageRange(pages, q.index, q.page_offset.value,
                                         q.page_length.value)
         IN  (IF q.outcome = "ok" THEN body ELSE <<>>)
                 \o BodiesServed(Tail(requests), pages)

\* C14: in AlluxioFileSystem.read and read_range, the call raises when its
\* first page request fails (page 0 of read, page s of read_range); when a
\* later page request fails, the call returns, without an error, exactly the
\* bytes of the pages received before the failure
C14_FirstPageFailureRaisedLaterSwallowed ==
    (/\ io_op \in {"read", "read_range"} /\ io_client = "sync" /\ CallOver
     /\ PageRequests # <<>>)
    => LET n == Len(PageRequests)
       IN  /\ PageRequests[1].outcome # "ok" => io_pc = "raised"
           /\ (n > 1 /\ PageRequests[n].outcome # "ok") =>
                 /\ io_pc = "returned"
                 /\ io_result.bytes = BodiesServed(PageRequests, w_pages)
                 /\ \A k \in 1..(n - 1) : PageRequests[k].outcome = "ok"

\* read_range returned the bytes of its first page although the request of
\* its second page failed
C14_Witness ==
    /\ io_op = "read_range" /\ io_client = "sync" /\ io_pc = "returned"
    /\ Len(PageRequests) = 2
    /\ PageRequests[2].outcome = "status"
    /\ io_result.bytes # <<>>
    /\ io_result.bytes = BodiesServed(PageRequests, w_pages)

\* C15: in every state of a read or read_range call, at most one page
\* request is outstanding and it is the last one issued (a request is issued
\* only after the response to the one before), the page indices requested
\* are consecutive and increasing, so none is requested twice, and the bytes
\* returned are the bodies received, in the order of the requests
C15_PageRequestsSequentialAscending ==
    io_op \in {"read", "read_range"} =>
        /\ io_pending \in {0, 1}
        /\ \A k \in 1..(Len(PageRequests) - 1) :
              /\ PageRequests[k].outcome # "pending"
              /\ PageRequests[k + 1].index = PageRequests[k].index + 1
        /\ \A j, k \in 1..Len(PageRequests) :
              j # k => PageRequests[j].index # PageRequests[k].index
        /\ (io_pc = "returned" /\ AllAnsweredOk) =>
              io_result.bytes = BodiesServed(PageRequests, w_pages)

\* the third page request of a call is outstanding, after the responses to
\* the first two
C15_Witness ==
    /\ io_op = "read_range" /\ io_pc = "page_wait"
    /\ Len(PageRequests) = 3
    /\ PageRequests[1].outcome = "ok" /\ PageRequests[2].outcome = "ok"
    /\ PageRequests[3].outcome = "pending"
    /\ PageRequests[3].index = PageRequests[1].index + 2

\* C16: read_range(path, offset, 0) with a valid path and a valid offset
\* returns b"" and issues no HTTP request, on AlluxioFileSystem and on
\* AlluxioAsyncFileSystem
C16_ZeroLengthReadsNothing ==
    (/\ io_op = "read_range" /\ CallOver
     /\ _validate_path(io_path) = "ok"
     /\ 0 <= io_offset
     /\ io_length = IntValue(0))
    => /\ io_pc = "returned"
       /\ io_result.bytes = <<>>
       /\ io_requests = <<>>

\* ceil(a / b) for a >= 0 and b > 0
CeilDiv(a, b) == (a + b - 1) \div b

\* read_range(path, o, -1) with 0 <= o < L is over, on a worker that answers
\* the status request
ReadToEndOver ==
    /\ io_op = "read_range" /\ io_client = "sync" /\ CallOver
    /\ _validate_path(io_path) = "ok"
    /\ io_length = IntValue(-1)
    /\ 0 <= io_offset /\ io_offset < ufs_length

\* C17 as claimed: read_range(path, o, -1) on a file of length L, with
\* 0 <= o < L, issues at most ceil((L - o) / P) page requests
C17_AtMostCeilPageRequests ==
    ReadToEndOver =>
        Len(PageRequests) <= CeilDiv(ufs_length - io_offset, page_size)

\* C17, amended: read_range(path, o, -1) with 0 <= o < L issues at most one
\* page request for each page from the page of byte o to the page of byte
\* L - 1, which is floor((L - 1) / P) - floor(o / P) + 1 requests
C17_AtMostOneRequestPerPageOfRange ==
    ReadToEndOver =>
        Len(PageRequests) <=
            ((ufs_length - 1) \div page_size) - (io_offset \div page_size) + 1

\* a read to the end that began inside a page asked for one page more than
\* ceil((L - o) / P)
C17_Witness ==
    /\ ReadToEndOver /\ io_pc = "returned" /\ AllAnsweredOk
    /\ io_offset % page_size # 0
    /\ Len(PageRequests) = CeilDiv(ufs_length - io_offset, page_size) + 1
    /\ Len(PageRequests) =
           ((ufs_length - 1) \div page_size) - (io_offset \div page_size) + 1

\* the call in progress has a path that _validate_path rejects, or it is a
\* read_range with a negative offset or a length below -1
InvalidInput ==
    /\ io_op # "none"
    /\ \/ _validate_path(io_path) # "ok"
       \/ /\ io_op = "read_range"
          /\ \/ io_offset < 0
             \/ io_length.type = "int" /\ io_length.value < -1

\* C18: a public method called with a path that is not a str matching
\* ^[A-Za-z0-9]+://, or read_range called with a negative offset or a length
\* below -1, selects no worker and issues no HTTP request, and it ends by
\* raising
C18_InvalidInputFailsBeforeIo ==
    InvalidInput =>
        /\ io_selected = 0
        /\ io_requests = <<>>
        /\ CallOver => io_pc = "raised"

\* read_range with a valid path and offset and the length -2 raised
C18_Witness ==
    /\ io_op = "read_range" /\ io_pc = "raised"
    /\ _validate_path(io_path) = "ok"
    /\ io_offset >= 0
    /\ io_length = IntValue(-2)
    /\ io_result.kind = "ValueError"
    /\ io_selected = 0 /\ io_requests = <<>>

\* C19: write_page returns True when the worker answers the POST with a 2xx
\* status, and for every other status it raises instead of returning a
\* value, on AlluxioFileSystem and on AlluxioAsyncFileSystem
C19_WritePageSucceedsExactlyOn2xx ==
    (/\ io_op = "write_page" /\ CallOver
     /\ io_requests # <<>>
     /\ io_requests[1].outcome \in {"ok", "status"})
    => IF 200 <= io_requests[1].status /\ io_requests[1].status < 300
       THEN io_pc = "returned" /\ io_result.flag
       ELSE io_pc = "raised"

\* the progress requests of the call
ProgressRequests == SelectSeq(io_requests, LAMBDA q : q.kind = "progress")

\* C20: load returns True only if its last poll returned SUCCEEDED; a poll
\* that returned SUCCEEDED, FAILED or STOPPED is the last request of the
\* call, which then returns at once, False for FAILED and STOPPED; and when
\* the polls returned RUNNING, VERIFYING, SUCCEEDED the call returned True
\* after exactly three progress requests
C20_LoadEndsAtTerminalState ==
    io_op = "load" =>
        /\ (CallOver /\ io_result.flag) =>
              /\ io_polls # <<>>
              /\ io_polls[Len(io_polls)] = "SUCCEEDED"
        /\ \A k \in 1..Len(io_polls) :
              io_polls[k] \in {"SUCCEEDED", "FAILED", "STOPPED"} =>
                  /\ k = Len(io_polls)
                  /\ Len(ProgressRequests) = k
                  /\ io_requests[Len(io_requests)].kind = "progress"
                  /\ io_pending = 0
                  /\ io_pc = "returned"
                  /\ io_result.flag = (io_polls[k] = "SUCCEEDED")
        /\ io_polls = <<"RUNNING", "VERIFYING", "SUCCEEDED">> =>
              /\ io_pc = "returned" /\ io_result.flag
              /\ Len(ProgressRequests) = 3

\* load with a timeout returned True after the polls RUNNING, VERIFYING,
\* SUCCEEDED
C20_Witness ==
    /\ io_op = "load" /\ io_pc = "returned" /\ io_result.flag
    /\ timeout.type = "int"
    /\ io_polls = <<"RUNNING", "VERIFYING", "SUCCEEDED">>
    /\ Len(ProgressRequests) = 3

----------------------------------------------------------------------------
(* Properties of load                                                      *)

\* the submit request of a load was answered, and the answer says this
SubmitAnswered(content) ==
    /\ io_op = "load"
    /\ io_requests # <<>>
    /\ io_requests[1].kind = "submit"
    /\ io_requests[1].outcome = "ok"
    /\ io_requests[1].answer = content

\* C21: when the submit request of load is answered with success = false,
\* load returns False, the submit request is the only request of the call
\* (no progress poll is issued) and no time is spent sleeping
C21_RefusedSubmitReturnsFalseWithoutPolling ==
    SubmitAnswered("success: false") =>
        /\ io_pc = "returned"
        /\ io_result = ReturnedFlag(FALSE)
        /\ Len(io_requests) = 1
        /\ io_polls = <<>>
        /\ io_clock = 0

\* AlluxioFileSystem.load with a timeout returned False after a submit
\* answer with success = false
C21_Witness ==
    /\ SubmitAnswered("success: false")
    /\ io_client = "sync" /\ timeout = IntValue(15)
    /\ io_pc = "returned" /\ io_result = ReturnedFlag(FALSE)

\* load in progress with a timeout, in AlluxioFileSystem or in the load
\* module
TimedLoad ==
    /\ io_op = "load" /\ io_client # "async"
    /\ timeout.type = "int"

\* C22: in a load with a timeout, when a progress poll has returned RUNNING
\* or VERIFYING, the loop begins its sleep if at least 10 seconds are left
\* before stop_time and otherwise returns False in the same step; a sleep
\* that began lasts its 10 seconds, is followed by the next poll and by
\* nothing else, and ends no later than stop_time
C22_SleepOnlyWithTenSecondsLeft ==
    [][ TimedLoad =>
          /\ (/\ io_pc = "poll_wait"
              /\ Len(io_polls') = Len(io_polls) + 1
              /\ io_polls'[Len(io_polls')] \in {"RUNNING", "VERIFYING"})
             => IF timeout.value - io_clock' >= poll_interval
                THEN io_pc' = "sleep" /\ io_result' = NoResult
                ELSE io_pc' = "returned" /\ io_result' = ReturnedFlag(FALSE)
          /\ io_pc = "sleep"
             => /\ io_pc' = "poll"
                /\ io_result' = NoResult
                /\ io_clock' = io_clock + poll_interval
                /\ io_clock' <= timeout.value ]_vars

\* load(path, 15) on a job that stays RUNNING: one sleep, then False when
\* the second poll leaves less than 10 seconds, at most 20 seconds after
\* the submit answer
C22_Witness ==
    /\ TimedLoad /\ io_client = "sync" /\ timeout = IntValue(15)
    /\ io_polls = <<"RUNNING", "RUNNING">>
    /\ io_pc = "returned" /\ io_result = ReturnedFlag(FALSE)
    /\ io_clock >= poll_interval /\ io_clock <= 20

\* C23: a load with a timeout, on a worker that answers every request,
\* issues at most floor(timeout / 10) + 1 progress requests, and it ends
\* whatever job states the worker reports, RUNNING for ever included
C23_TimedLoadTerminatesWithinItsPolls ==
    /\ [](TimedLoad =>
            Len(ProgressRequests) <= (timeout.value \div poll_interval) + 1)
    /\ (TimedLoad /\ ~CallOver) ~> CallOver

\* load(path, 25) on a job that stayed RUNNING returned False after
\* floor(25 / 10) + 1 = 3 progress requests
C23_Witness ==
    /\ TimedLoad /\ timeout = IntValue(25)
    /\ io_polls = <<"RUNNING", "RUNNING", "RUNNING">>
    /\ Len(ProgressRequests) = 3
    /\ io_pc = "returned" /\ io_result = ReturnedFlag(FALSE)

\* the decoding of a jobState value: FAILED for a value that contains
\* FAILED, the value itself when it names a LoadState, an error otherwise
\* and for an answer without jobState
DecodedJobState(content) ==
    IF content = NoJobState THEN "error"
    ELSE IF ContainsFailed(content) THEN "FAILED"
    ELSE IF content \in LoadStates THEN content
    ELSE "error"

\* C24: every progress answer of a load is decoded in this way by
\* AlluxioFileSystem, by AlluxioAsyncFileSystem and by the load module: the
\* k-th answer gives the k-th job state of the loop, or, when the decoding
\* is an error, no job state, and the call ends
C24_JobStateDecodedAlikeByAllClients ==
    io_op = "load" =>
        \A k \in 1..Len(ProgressRequests) :
            LET q == ProgressRequests[k]
            IN  q.outcome = "ok" =>
                  IF DecodedJobState(q.answer) = "error"
                  THEN Len(io_polls) = k - 1 /\ CallOver
                  ELSE /\ Len(io_polls) >= k
                       /\ io_polls[k] = DecodedJobState(q.answer)

\* the last request of a load failed (no answer, or an error status), or it
\* is a progress request whose answer has no jobState or names no LoadState
LoadRequestFailed ==
    /\ io_op = "load"
    /\ io_requests # <<>>
    /\ LET q == io_requests[Len(io_requests)]
       IN  \/ q.outcome \in {"status", "connection"}
           \/ /\ q.kind = "progress" /\ q.outcome = "ok"
              /\ DecodedJobState(q.answer) = "error"

\* C25: a load whose submit request or progress request fails, or whose
\* progress answer has no jobState or an undefined state, ends by raising
\* an error to its caller and returns no value
C25_LoadErrorsReachTheCaller ==
    LoadRequestFailed => io_pc = "raised" /\ io_result.kind # "returned"

----------------------------------------------------------------------------
(* Properties of the background refresh and of its shutdown                *)

\* the worker sets of the registry whose identities can all be hashed
HashableContents ==
    { ws \in RegistryContents :
        ws # {} /\ \A e \in ws : e.worker_identity.version >= 0 }

\* the background refresh has fetched the membership ws, which differs from
\* the published one, in an iteration that follows a logged exception
FetchedAfterError(ws) ==
    /\ caller = "bg" /\ pc = "check"
    /\ logged_error
    /\ worker_entities = ws
    /\ ws # DictItems(_worker_info_map)

\* C26: an exception raised in an iteration of update_loop is caught there:
\* the thread goes on to its sleep and to the next loop test, it stays
\* alive, and neither __init__ (which has returned) nor the thread in
\* shutdown_background_update_ring sees it; unless shutdown is requested a
\* next iteration begins; and an iteration after the exception that fetches
\* a changed membership publishes it
C26_RefreshSurvivesExceptions ==
    /\ [][ (caller = "bg" /\ pc = "raised" /\ pc' # pc)
             => /\ pc' = "loop"
                /\ logged_error'
                /\ _background_thread' = "started"
                /\ ctor_pc' = "returned"
                /\ sd_pc' = sd_pc ]_vars
    /\ (caller = "bg" /\ pc = "raised")
          ~> (pc = "fetch" \/ _shutdown_background_update_ring_event)
    /\ \A ws \in HashableContents :
          FetchedAfterError(ws)
             ~> (/\ DictItems(_worker_info_map) = ws
                 /\ hash_ring = NewHashRing(_worker_info_map))

\* after a logged exception, an iteration fetched a changed membership and
\* has published it
C26_Witness ==
    /\ logged_error
    /\ ~_shutdown_background_update_ring_event
    /\ caller = "bg" /\ pc = "returned"
    /\ worker_entities # DictItems(fetch_start_map)
    /\ DictItems(_worker_info_map) = worker_entities
    /\ hash_ring = NewHashRing(_worker_info_map)

\* C27: after shutdown_background_update_ring has set the event of a
\* provider whose refresh thread runs, the thread ends and the call
\* returns; the call has returned only when the thread has ended; and once
\* it has returned, hash_ring and _worker_info_map keep their values
C27_ShutdownJoinsTheRefresh ==
    /\ (sd_pc = "join") ~> (_background_thread = "ended")
    /\ (sd_pc = "join") ~> (sd_pc = "returned")
    /\ [](sd_pc = "returned" /\ _shutdown_background_update_ring_event
            => _background_thread = "ended")
    /\ [][ sd_pc = "returned"
             => UNCHANGED <<hash_ring, _worker_info_map>> ]_vars

\* the shutdown of a provider with a background refresh has returned, after
\* the refresh had replaced the ring of the construction
C27_Witness ==
    /\ sd_pc = "returned"
    /\ _shutdown_background_update_ring_event
    /\ _background_thread = "ended"
    /\ hash_ring # NoRing
    /\ logged_error

----------------------------------------------------------------------------
(* Properties of the lock and of the ring lookup                           *)

\* C28: get_multiple_workers never holds the lock under which
\* _update_hash_ring replaces the ring, and it never waits for that lock
\* while a replacement holds it
C28_ReadersTakeNoLock ==
    /\ _lock # "client"
    /\ ~(g_pc = "acquire" /\ _lock # "free")

\* the range of sintdigest()
MinInt32 == -2147483647 - 1
MaxInt32 == 2147483647

\* the least element of a non-empty set of integers
Least(S) == CHOOSE m \in S : \A j \in S : m <= j

KeysAbove(ring, k) == {j \in DOMAIN ring : j > k}

KeysFrom(ring, k) == {j \in DOMAIN ring : j >= k}

\* the keys a ring is looked up with: its own keys and their neighbours,
\* the ends of the 32-bit range, 0, and the first lookup keys of the paths
ProbeKeys(ring) ==
    DOMAIN ring
    \cup {k - 1 : k \in DOMAIN ring} \cup {k + 1 : k \in DOMAIN ring}
    \cup {MinInt32, 0, MaxInt32}
    \cup {LookupKeys[p][a] : p \in Paths, a \in 1..MaxCount}

\* get_multiple_workers has just looked workers up in a ring
LookedUp == g_pc = "addresses" /\ seen_hash_ring # NoRing

\* C29: on a non-empty ring and for every key k, _get_ceiling_value(k) is
\* the identity stored at the smallest ring key strictly greater than k,
\* or, when no ring key is greater than k, the identity stored at the
\* smallest ring key
C29_CeilingIsNextKeyStrictlyAbove ==
    LookedUp =>
        \A k \in ProbeKeys(seen_hash_ring) :
            _get_ceiling_value(seen_hash_ring, k) =
                IF KeysAbove(seen_hash_ring, k) # {}
                THEN seen_hash_ring[Least(KeysAbove(seen_hash_ring, k))]
                ELSE seen_hash_ring[Least(DOMAIN seen_hash_ring)]

\* a lookup with count 1 returned the identity at the smallest ring key
\* above its first lookup key, on a ring in which that identity is not the
\* one at the smallest key
C29_Witness ==
    /\ LookedUp /\ g_count = 1
    /\ KeysAbove(seen_hash_ring, LookupKeys[g_key][1]) # {}
    /\ worker_identities =
          <<seen_hash_ring[Least(KeysAbove(seen_hash_ring,
                                           LookupKeys[g_key][1]))]>>
    /\ worker_identities[1] # seen_hash_ring[Least(DOMAIN seen_hash_ring)]

\* C30: on a non-empty ring and for every key k, the lookup returns the
\* identity stored at the least ring key greater than or equal to k, so
\* that a ring key maps to its own identity, or the identity stored at the
\* smallest ring key when no ring key is greater than or equal to k
C30_CeilingIsLeastKeyNotBelow ==
    LookedUp =>
        \A k \in ProbeKeys(seen_hash_ring) :
            _get_ceiling_value(seen_hash_ring, k) =
                IF KeysFrom(seen_hash_ring, k) # {}
                THEN seen_hash_ring[Least(KeysFrom(seen_hash_ring, k))]
                ELSE seen_hash_ring[Least(DOMAIN seen_hash_ring)]

\* the ring key that follows the ring key k, the smallest one after the
\* largest
NextRingKey(ring, k) ==
    IF KeysAbove(ring, k) # {} THEN Least(KeysAbove(ring, k))
    ELSE Least(DOMAIN ring)

\* C30, amended: a key that is itself a ring key is looked up as the
\* identity stored at the ring key that follows it (the smallest ring key
\* after the largest), and not as its own; every other key is looked up as
\* the identity stored at the least ring key greater than or equal to it,
\* or at the smallest ring key when there is none
C30_RingKeyMapsToTheFollowingKey ==
    LookedUp =>
        /\ \A k \in DOMAIN seen_hash_ring :
              _get_ceiling_value(seen_hash_ring, k) =
                  seen_hash_ring[NextRingKey(seen_hash_ring, k)]
        /\ \A k \in ProbeKeys(seen_hash_ring) \ DOMAIN seen_hash_ring :
              _get_ceiling_value(seen_hash_ring, k) =
                  IF KeysFrom(seen_hash_ring, k) # {}
                  THEN seen_hash_ring[Least(KeysFrom(seen_hash_ring, k))]
                  ELSE seen_hash_ring[Least(DOMAIN seen_hash_ring)]

\* get_multiple_workers looked up in a ring that has a key whose identity
\* is not the one the lookup of that key returns
C30_Witness ==
    /\ LookedUp
    /\ \E k \in DOMAIN seen_hash_ring :
          /\ seen_hash_ring[NextRingKey(seen_hash_ring, k)] # seen_hash_ring[k]
          /\ _get_ceiling_value(seen_hash_ring, k) # seen_hash_ring[k]

----------------------------------------------------------------------------
(* Properties of the ring's contents                                       *)

\* the keys of the virtual nodes of one identity
NodeKeysOf(worker_identity) ==
    {NodeKeys[worker_identity][i] :
        i \in 0..(ALLUXIO_HASH_NODE_PER_WORKER_DEFAULT_VALUE - 1)}

\* the membership map that self.hash_ring was built from: between the two
\* assignments of _update_hash_ring it is the local worker_info_map
PublishedFrom ==
    IF pc = "pub_map" THEN new_worker_info_map ELSE _worker_info_map

\* no two virtual nodes of the map share a key
DistinctNodeKeys(worker_info_map) ==
    \A i, j \in 1..Len(worker_info_map) :
      \A a, b \in 0..(ALLUXIO_HASH_NODE_PER_WORKER_DEFAULT_VALUE - 1) :
        (i # j \/ a # b) =>
            NodeKeys[worker_info_map[i].k][a] # NodeKeys[worker_info_map[j].k][b]

\* the identity of the map that was inserted last at the key
LastInsertedAt(worker_info_map, key) ==
    LET at == {i \in 1..Len(worker_info_map) :
                  key \in NodeKeysOf(worker_info_map[i].k)}
    IN  worker_info_map[CHOOSE i \in at : \A j \in at : j <= i].k

\* C31: a published ring has an entry for every virtual-node key of its
\* membership map and no other; with pairwise distinct keys these are
\* hash_node_per_worker entries for each worker, and a key shared by two
\* virtual nodes has one entry, which maps to the identity inserted last
C31_RingHoldsEveryVirtualNode ==
    hash_ring # NoRing =>
        LET W == PublishedFrom
        IN  /\ DOMAIN hash_ring = UNION {NodeKeysOf(W[i].k) : i \in 1..Len(W)}
            /\ DistinctNodeKeys(W) =>
                   Cardinality(DOMAIN hash_ring) =
                       ALLUXIO_HASH_NODE_PER_WORKER_DEFAULT_VALUE * Len(W)
            /\ \A key \in DOMAIN hash_ring :
                   hash_ring[key] = LastInsertedAt(W, key)

\* a ring was published for a map in which a later identity shares a key
\* with an earlier one: the ring has fewer entries than virtual nodes and
\* the later identity holds the key
C31_Witness ==
    /\ hash_ring # NoRing
    /\ pc = "returned"
    /\ LET W == _worker_info_map
       IN  /\ Cardinality(DOMAIN hash_ring) <
                  ALLUXIO_HASH_NODE_PER_WORKER_DEFAULT_VALUE * Len(W)
           /\ \E i, j \in 1..Len(W) :
                /\ i < j
                /\ W[j].k = IdX
                /\ \E key \in NodeKeysOf(W[i].k) \cap NodeKeysOf(W[j].k) :
                      hash_ring[key] = W[j].k

\* C32: once __init__ has returned, whatever refreshes follow, the ring has
\* an entry, and _get_ceiling_value gives an identity of the ring for the
\* hash of every path with every attempt number
C32_LookupAlwaysDefined ==
    ctor_pc = "returned" =>
        /\ hash_ring # NoRing
        /\ DOMAIN hash_ring # {}
        /\ \A p \in Paths, a \in 1..max_attempts :
              _get_ceiling_value(hash_ring, LookupKeys[p][a])
                  \in {hash_ring[k] : k \in DOMAIN hash_ring}

\* a refresh has failed with an exception, the refresh that just returned
\* fetched nothing, and the ring of two workers answers for every path
C32_Witness ==
    /\ ctor_pc = "returned"
    /\ logged_error
    /\ caller = "bg" /\ pc = "returned" /\ worker_entities = {}
    /\ Len(_worker_info_map) = 2
    /\ \A p \in Paths :
          _get_ceiling_value(hash_ring, LookupKeys[p][1]) \in DictKeySet(_worker_info_map)

----------------------------------------------------------------------------
(* Properties of the selection of several workers                          *)

\* the identity the ring of the call gives for the key with this attempt
LookupAt(attempt) ==
    _get_ceiling_value(seen_hash_ring, LookupKeys[g_key][attempt])

\* the first attempt whose lookup gives an identity outside found; 0 when
\* none of the max_attempts lookups does
FirstNewAttempt(found) ==
    IF \E a \in 1..max_attempts : LookupAt(a) \notin found
    THEN CHOOSE a \in 1..max_attempts :
            /\ LookupAt(a) \notin found
            /\ \A b \in 1..(a - 1) : LookupAt(b) \in found
    ELSE 0

\* the identities before position i of the list
FoundBefore(workers, i) == {workers[j] : j \in 1..(i - 1)}

\* C33: for a count below the number of workers the identities found are
\* the first count distinct ones of lookup(hash(key, 1)), lookup(hash(key,
\* 2)), ... in the order of their first occurrence, found within
\* max_attempts lookups; the first is lookup(hash(key, 1)), and the list is
\* a prefix of the list that count + 1 gives on the same ring
C33_FirstDistinctLookupsInOrder ==
    (g_pc = "addresses" /\ g_count < Len(seen_len_map)) =>
        LET W == worker_identities
        IN  /\ g_attempts <= max_attempts
            /\ Len(W) <= g_count
            /\ \A i \in 1..Len(W) :
                  /\ FirstNewAttempt(FoundBefore(W, i)) # 0
                  /\ W[i] = LookupAt(FirstNewAttempt(FoundBefore(W, i)))
            /\ Len(W) < g_count =>
                  /\ g_attempts = max_attempts
                  /\ FirstNewAttempt(SeqToSet(W)) = 0
            /\ (Len(W) = g_count /\ g_count > 0) =>
                  /\ g_attempts = FirstNewAttempt(FoundBefore(W, g_count))
                  /\ W[1] = LookupAt(1)
            /\ LET more == _get_multiple_worker_identities(
                               seen_hash_ring, seen_len_map, g_key,
                               g_count + 1).workers
               IN  /\ Len(W) <= Len(more)
                   /\ W = SubSeq(more, 1, Len(W))

\* two of three workers were asked for and found after a lookup that gave
\* the first worker again
C33_Witness ==
    /\ g_pc = "addresses"
    /\ g_count = 2
    /\ Len(seen_len_map) = 3
    /\ Len(worker_identities) = 2
    /\ g_attempts > 2
    /\ LookupAt(2) = worker_identities[1]
    /\ worker_identities[2] = LookupAt(g_attempts)

----------------------------------------------------------------------------
(* Properties of the page requests of read_range                           *)

\* the file offsets at which page request k of the call begins and ends
RequestStart(k) ==
    PageRequests[k].index * page_size + PageRequests[k].page_offset.value

RequestEnd(k) == RequestStart(k) + PageRequests[k].page_length.value

RECURSIVE SumOfLengths(_)
SumOfLengths(k) ==
    IF k = 0 THEN 0
    ELSE SumOfLengths(k - 1) + PageRequests[k].page_length.value

\* C34: the page requests of read_range, for pages offset div P up to
\* (offset + length - 1) div P, each lie inside their page, the first
\* begins at offset, each begins where the one before ends, and the request
\* for the last page ends at offset + length, so that the lengths requested
\* sum to length
C34_RangeRequestsTileTheRange ==
    (io_op = "read_range" /\ PageRequests # <<>>) =>
        /\ page_size >= 1 /\ io_offset >= 0 /\ length >= 1
        /\ \A k \in 1..Len(PageRequests) :
              /\ start_page_index <= PageRequests[k].index
              /\ PageRequests[k].index <= end_page_index
              /\ 0 <= PageRequests[k].page_offset.value
              /\ 1 <= PageRequests[k].page_length.value
              /\ PageRequests[k].page_offset.value
                     + PageRequests[k].page_length.value <= page_size
        /\ PageRequests[1].index = start_page_index
        /\ RequestStart(1) = io_offset
        /\ \A k \in 1..(Len(PageRequests) - 1) :
              RequestStart(k + 1) = RequestEnd(k)
        /\ PageRequests[Len(PageRequests)].index = end_page_index =>
              /\ RequestEnd(Len(PageRequests)) = io_offset + length
              /\ SumOfLengths(Len(PageRequests)) = length

\* a range that begins inside one page, covers the next and ends inside a
\* third has been requested page by page
C34_Witness ==
    /\ io_op = "read_range"
    /\ Len(PageRequests) = 3
    /\ PageRequests[3].index = end_page_index
    /\ PageRequests[1].page_offset.value > 0
    /\ PageRequests[2].page_length.value = page_size
    /\ PageRequests[3].page_length.value < page_size
    /\ SumOfLengths(3) = length

\* page request k of the call got a response as long as was requested, for
\* a page before end_page_index
FullBeforeEndPage(k) ==
    /\ PageRequests[k].outcome = "ok"
    /\ k <= Len(io_contents)
    /\ Len(io_contents[k]) = PageRequests[k].page_length.value
    /\ PageRequests[k].index < end_page_index

\* the part of C35 that holds in every state
RangeRequestsStop ==
    (io_op = "read_range" /\ PageRequests # <<>>) =>
        /\ \A k \in 1..(Len(PageRequests) - 1) : FullBeforeEndPage(k)
        /\ LET n == Len(PageRequests)
           IN  IF FullBeforeEndPage(n)
               THEN /\ io_pc = "page"
                    /\ page_index = PageRequests[n].index + 1
                    /\ ENABLED PageRequest
               ELSE io_pc \in {"page_wait", "returned", "raised"}

\* the generator of read_range is at the request of a page after the first
NextPageDue ==
    /\ io_op = "read_range" /\ io_pc = "page"
    /\ PageRequests # <<>>

\* the request for page_index is with the worker
PageRequested ==
    /\ io_op = "read_range" /\ io_pc = "page_wait"
    /\ PageRequests[Len(PageRequests)].index = page_index
    /\ PageRequests[Len(PageRequests)].outcome = "pending"

\* C35: in read_range every page request but the last got a response as
\* long as requested for a page before end_page_index, so no request
\* follows the response to page e, a shorter response or a failure; after a
\* response as long as requested for a page before e the generator is at
\* the request of the next page, and that request is sent
C35_RangeRequestsStopAtEndOrShortPage ==
    /\ []RangeRequestsStop
    /\ NextPageDue ~> PageRequested

\* three pages were requested; the third response was short and ended the
\* call before end_page_index
C35_Witness ==
    /\ io_op = "read_range" /\ io_client = "sync" /\ io_pc = "returned"
    /\ Len(PageRequests) = 3
    /\ FullBeforeEndPage(1) /\ FullBeforeEndPage(2)
    /\ PageRequests[3].outcome = "ok"
    /\ PageRequests[3].index < end_page_index
    /\ Len(io_contents[3]) < PageRequests[3].page_length.value

----------------------------------------------------------------------------
(* Properties of the polling interval and of the shutdown call             *)

\* C36: in a load call of any client, a progress poll after the first is
\* issued only after a sleep, and that sleep took poll_interval seconds
C36_PollsTenSecondsApart ==
    [][(io_op = "load" /\ io_pc # "poll" /\ io_pc' = "poll" /\ io_polls # <<>>)
          => (io_pc = "sleep" /\ io_clock' - io_clock >= poll_interval)]_vars

\* C37: shutdown_background_update_ring on a provider whose __init__
\* returned never raises, whether the provider was built from worker_hosts,
\* from a registry without background refresh or with the refresh running
C37_ShutdownNeverRaises ==
    ctor_pc = "returned" => sd_pc # "raised"

----------------------------------------------------------------------------
(* Properties of the selection after a refresh                             *)

\* the background refresh has just returned from replacing the map it found
\* at its start (fetch_start_map) by the one it fetched
RefreshCompleted ==
    /\ caller = "bg" /\ pc = "returned"
    /\ new_worker_info_map # EmptyDict
    /\ DictItems(new_worker_info_map) # DictItems(fetch_start_map)

\* the addresses the completed refresh took out of the map: those of the
\* workers it removed and the former ones of the workers it moved
RetiredAddresses ==
    {fetch_start_map[i].v : i \in 1..Len(fetch_start_map)}
        \ {new_worker_info_map[i].v : i \in 1..Len(new_worker_info_map)}

\* C38: a get_multiple_workers call that reads the ring after a refresh has
\* completed returns, for each identity it found, the address the newly
\* published map records for it, and so no address of a worker the refresh
\* removed and no former address of a worker whose address it changed
C38_CallsAfterRefreshSeeNewMap ==
    [][(g_pc = "addresses" /\ g_pc' = "done" /\ RefreshCompleted) =>
          /\ Len(worker_addresses') = Len(worker_identities)
          /\ \A i \in 1..Len(worker_identities) :
                /\ DictHas(new_worker_info_map, worker_identities[i])
                /\ worker_addresses'[i] =
                       DictGet(new_worker_info_map, worker_identities[i])
          /\ \A i \in 1..Len(worker_addresses') :
                worker_addresses'[i] \notin RetiredAddresses]_vars

\* a call has returned all workers of the map that a refresh published
\* after it removed one worker and changed the address of another
C38_Witness ==
    /\ g_pc = "done"
    /\ RefreshCompleted
    /\ seen_get_map = new_worker_info_map
    /\ DictKeySet(fetch_start_map) \ DictKeySet(new_worker_info_map) # {}
    /\ \E w \in DictKeySet(fetch_start_map) \cap DictKeySet(new_worker_info_map) :
          /\ DictGet(fetch_start_map, w) # DictGet(new_worker_info_map, w)
          /\ \E i \in 1..Len(worker_identities) :
                /\ worker_identities[i] = w
                /\ worker_addresses[i] = DictGet(new_worker_info_map, w)
    /\ Len(worker_addresses) = Len(new_worker_info_map)

====
